---------------------------- MODULE Spec2Model ----------------------------
(***************************************************************************)
(* The RTEMS glue of YAFFS (rtems_yaffs.c): the path walk over the object  *)
(* graph (h_find_object, h_follow_link), the per-volume lock, and the      *)
(* ycb_* entry points the host's filesystem layer calls.                   *)
(*                                                                         *)
(* C strings are sequences of one-character strings; the terminating NUL   *)
(* is what a read one past the last character yields.  A pointer into a    *)
(* string is a record [buf, off]: buf 0 is the caller's pathname, buf o    *)
(* (an object id) is the alias string of symlink o; off counts from 1.     *)
(***************************************************************************)
EXTENDS Integers, Sequences, FiniteSets, TLC

VARIABLES
    objs,      \* the object graph: object id -> struct yaffs_obj
    dev,       \* struct yaffs_dev: is_mounted, read_only
    lock,      \* the holder of the volume lock (os_context), or NoThread
    pc,        \* per thread: the place in the entry point it is executing
    loc,       \* per thread: the arguments, locals and result of its call
    iop,       \* per thread: its open handle (rtems_libio_t)
    emitted    \* per thread: the directory entries handed out since the
               \* handle was last at offset 0 (an observer, not program state)

vars == <<objs, dev, lock, pc, loc, iop, emitted>>

-----------------------------------------------------------------------------
(* Bounds *)

MaxObj == 6          \* object slots of the volume
MaxPathLen == 5      \* longest pathname handed to ycb_eval_path

(* Program constants *)

YAFFS_MAX_NAME_LENGTH == 255
NAME_MAX == 255

Obj == 1..MaxObj
Root == 1
NULL == 0
Threads == {"t1", "t2"}
NoThread == "none"

NUL == ""
YAFFS_PATH_DIVIDERS == <<"/">>
Alphabet == {"/", ".", "a", "b"}

NullPtr == [buf |-> -1, off |-> 0]

-----------------------------------------------------------------------------
(* The object graph (struct yaffs_obj, owned by the engine) *)

FreeObj ==
    [live |-> FALSE, variant_type |-> "UNKNOWN", parent |-> NULL, name |-> <<>>,
     children |-> <<>>, alias |-> <<>>, equiv |-> NULL, yst_mode |-> 0,
     dirty |-> 0, length |-> 0, yst_atime |-> 0, yst_ctime |-> 0,
     yst_mtime |-> 0]

DirObj(p, n, ch) ==
    [FreeObj EXCEPT !.live = TRUE, !.variant_type = "DIRECTORY", !.parent = p,
                    !.name = n, !.children = ch, !.yst_mode = 493]

FileObj(p, n, len) ==
    [FreeObj EXCEPT !.live = TRUE, !.variant_type = "FILE", !.parent = p,
                    !.name = n, !.length = len, !.yst_mode = 420]

SymlinkObj(p, n, a) ==
    [FreeObj EXCEPT !.live = TRUE, !.variant_type = "SYMLINK", !.parent = p,
                    !.name = n, !.alias = a, !.yst_mode = 511]

HardlinkObj(p, n, e) ==
    [FreeObj EXCEPT !.live = TRUE, !.variant_type = "HARDLINK", !.parent = p,
                    !.name = n, !.equiv = e]

SpecialObj(p, n) ==
    [FreeObj EXCEPT !.live = TRUE, !.variant_type = "SPECIAL", !.parent = p,
                    !.name = n, !.yst_mode = 420]

Graph(list) == [o \in Obj |-> IF o <= Len(list) THEN list[o] ELSE FreeObj]

-----------------------------------------------------------------------------
(* Engine primitives the glue calls *)

\* the name copied into a buffer of buffer_size characters
yaffs_get_obj_name(o, buffer_size) ==
    IF Len(objs[o].name) > buffer_size - 1
    THEN SubSeq(objs[o].name, 1, buffer_size - 1) ELSE objs[o].name

yaffs_get_equivalent_obj(o) ==
    IF objs[o].variant_type = "HARDLINK" THEN objs[o].equiv ELSE o

yaffs_find_by_name(dir, str) ==
    LET ch == objs[dir].children
        hits == {i \in 1..Len(ch) : objs[ch[i]].name = str}
    IN IF hits = {} THEN NULL
       ELSE ch[CHOOSE i \in hits : \A j \in hits : i <= j]

-----------------------------------------------------------------------------
(* Strings *)

CharAt(s, i) == IF i >= 1 /\ i <= Len(s) THEN s[i] ELSE NUL

is_path_divider(ch) ==
    \E i \in 1..Len(YAFFS_PATH_DIVIDERS) : YAFFS_PATH_DIVIDERS[i] = ch

\* while(is_path_divider(*pathname)) pathname++;
SkipDividers(s, i) ==
    CHOOSE j \in i..(Len(s) + 1) :
        /\ ~is_path_divider(CharAt(s, j))
        /\ \A k \in i..(j - 1) : is_path_divider(CharAt(s, k))

\* while(*pathname && !is_path_divider(*pathname)) pathname++;
TokenEnd(s, i) ==
    CHOOSE j \in i..(Len(s) + 1) :
        /\ (CharAt(s, j) = NUL \/ is_path_divider(CharAt(s, j)))
        /\ \A k \in i..(j - 1) :
              CharAt(s, k) # NUL /\ ~is_path_divider(CharAt(s, k))

\* str[]: the characters of the segment, at most YAFFS_MAX_NAME_LENGTH kept
TokenFirstChar(s, i, j) == SubSeq(s, i, IF j > i THEN i ELSE j - 1)
Token(s, i, j) ==
    SubSeq(s, i, IF j - i > YAFFS_MAX_NAME_LENGTH
                 THEN i + YAFFS_MAX_NAME_LENGTH - 1 ELSE j - 1)

\* the text a pointer's buffer holds
Text(ptxt, b) == IF b = 0 THEN ptxt ELSE objs[b].alias

-----------------------------------------------------------------------------
(* The path walk.  A walk yields [obj, out_of_fs, diverges]: the object    *)
(* returned (NULL for none), the value left in *out_of_fs, and whether the *)
(* walk recurses without end (then it never returns).  depth counts the    *)
(* symlinks being followed, one inside the other: more of them than there  *)
(* are objects means one is being followed inside itself.                  *)

Ret(o, oof) == [obj |-> o, out_of_fs |-> oof, diverges |-> FALSE]
\* a walk that gives up at the bound would return no object; this one goes on
GivesUp == [obj |-> NULL, out_of_fs |-> NullPtr, diverges |-> FALSE]
Diverges == [obj |-> NULL, out_of_fs |-> NullPtr, diverges |-> TRUE]

\* lines 83-88: where the walk of a symlink's alias starts (NULL: the root)
AliasStartAtRoot(obj) == NULL
AliasStart(obj) ==
    IF is_path_divider(CharAt(objs[obj].alias, 1)) THEN NULL
    ELSE objs[obj].parent

\* lines 145-147: the suffix reported when ".." leaves the root
SuffixAtDividers(s, i) == i
EscapeSuffix(s, i) == SkipDividers(s, i)

\* lines 142-143
StayInDir(dir) == dir
DotDot(dir) == objs[dir].parent

RECURSIVE h_find_object(_, _, _, _, _, _)
RECURSIVE h_find_object_loop(_, _, _, _, _, _)
RECURSIVE h_follow_link_loop(_, _, _, _)

\* lines 80-90: while the object is a symlink, walk its alias
h_follow_link_loop(ptxt, obj, oof, depth) ==
    IF obj # NULL /\ objs[obj].variant_type = "SYMLINK"
    THEN IF depth >= MaxObj
         THEN Diverges
         ELSE LET r == h_find_object(ptxt, AliasStart(obj), obj, 1, oof,
                                     depth + 1)
              IN IF r.diverges THEN r
                 ELSE h_follow_link_loop(ptxt, r.obj, r.out_of_fs, depth + 1)
    ELSE Ret(obj, oof)

\* lines 75-91
h_follow_link(ptxt, obj, oof, depth) ==
    h_follow_link_loop(ptxt,
                       IF obj # NULL THEN yaffs_get_equivalent_obj(obj) ELSE obj,
                       oof, depth)

\* lines 118-163: one turn of while(dir), from pathname = [buf, off]
h_find_object_loop(ptxt, dir, buf, off, oof, depth) ==
    LET s == Text(ptxt, buf)
        i1 == SkipDividers(s, off)
        i2 == TokenEnd(s, i1)
        str == Token(s, i1, i2)
        \* lines 160-163 and the loop test
        Next_(d, o) ==
            IF CharAt(s, i2) = NUL THEN Ret(d, o)
            ELSE IF d = NULL THEN Ret(NULL, o)
            ELSE h_find_object_loop(ptxt, d, buf, i2, o, depth)
    IN IF str = <<".">> THEN Next_(dir, oof)
       ELSE IF str = <<".", ".">>
       THEN IF objs[dir].parent # NULL
            THEN Next_(DotDot(dir), oof)
            ELSE Ret(NULL, [buf |-> buf, off |-> EscapeSuffix(s, i2)])
       ELSE IF str # <<>> /\ objs[dir].variant_type # "DIRECTORY"
            THEN Ret(NULL, oof)
            ELSE LET d1 == IF str # <<>> THEN yaffs_find_by_name(dir, str)
                           ELSE dir
                     r == h_follow_link(ptxt, d1, oof, depth)
                 IN IF r.diverges THEN r ELSE Next_(r.obj, r.out_of_fs)

\* line 112: dev->is_mounted
AlwaysMounted == TRUE

is_mounted == dev.is_mounted

\* lines 94-166; oof is what *out_of_fs holds when the call starts
h_find_object(ptxt, dir, buf, off, oof, depth) ==
    LET s == Text(ptxt, buf)
        pathname == SubSeq(s, off, Len(s))
    IN IF /\ \A k \in 1..Len(pathname) : pathname[k] # "/"
          /\ dir # NULL
          /\ yaffs_get_obj_name(dir, NAME_MAX) = pathname
       THEN Ret(dir, oof)
       ELSE IF ~is_mounted THEN Ret(NULL, NullPtr)
       ELSE h_find_object_loop(ptxt, IF dir = NULL THEN Root ELSE dir,
                               buf, off, NullPtr, depth)


-----------------------------------------------------------------------------
(* Threads of the host calling the entry points *)

UninitPtr == [buf |-> -2, off |-> 0]
NoCall == [buf |-> -1, off |-> 0, len |-> 0]

\* what a thread holds outside a call
Idle ==
    [op |-> "none", pathname |-> <<>>, start |-> NULL, node_access |-> NULL,
     obj |-> NULL,
     out_of_fs |-> UninitPtr, handlers |-> "none", evalpath_h |-> NoCall,
     count |-> 0, de |-> <<>>, length |-> 0, whence |-> "none",
     mode |-> 0, name |-> <<>>, new_parent |-> NULL, r |-> "none",
     actime |-> 0, modtime |-> 0, buf |-> <<>>,
     locks |-> 0, unlocks |-> 0,
     ret |-> 0, errno |-> "none"]

\* rtems_libio_t of a handle nobody has read from yet
ClosedIop == [node_access |-> NULL, offset |-> 0, data1 |-> NULL, size |-> 0]

Goto(t, label) == pc' = [pc EXCEPT ![t] = label]

\* lines 40-44: thread t, at the place from, calls ylock and goes on to the
\* place to; the lock callback blocks until the lock is free.  locks and
\* unlocks count the calls of ylock and yunlock the entry point has made.
ylock(t, from, to) ==
    /\ pc[t] = from
    /\ lock = NoThread
    /\ lock' = t
    /\ loc' = [loc EXCEPT ![t].locks = @ + 1]
    /\ Goto(t, to)
    /\ UNCHANGED <<objs, dev, iop, emitted>>

\* lines 46-50
yunlock(t, from, to) ==
    /\ pc[t] = from
    /\ lock' = NoThread
    /\ loc' = [loc EXCEPT ![t].unlocks = @ + 1]
    /\ Goto(t, to)
    /\ UNCHANGED <<objs, dev, iop, emitted>>

\* the entry point returns to the host
Return(t) ==
    /\ pc[t] = "ret"
    /\ Goto(t, "idle")
    /\ loc' = [loc EXCEPT ![t] = Idle]
    /\ UNCHANGED <<objs, dev, lock, iop, emitted>>

-----------------------------------------------------------------------------
(* ycb_eval_path, lines 176-223 *)

\* what a pathloc of the host can refer to: the objects ycb_eval_path binds
Bindable ==
    {o \in Obj : objs[o].live /\ objs[o].variant_type \in {"DIRECTORY", "FILE"}}

\* the host calls ycb_eval_path(pathname, strlen(pathname), flags, pathloc)
\* with pathloc->node_access = start
ycb_eval_path_call(t, pathnames) ==
    /\ pc[t] = "idle"
    /\ Goto(t, "eval_path:185")
    /\ \E pathname \in pathnames, start \in Bindable :
          loc' = [loc EXCEPT ![t] = [Idle EXCEPT !.op = "eval_path",
                                                !.pathname = pathname,
                                                !.start = start,
                                                !.node_access = start]]
    /\ UNCHANGED <<objs, dev, lock, iop, emitted>>

\* line 186; a walk that recurses without end never comes back
ycb_eval_path_find(t) ==
    /\ pc[t] = "eval_path:186"
    /\ LET r == h_find_object(loc[t].pathname, loc[t].node_access, 0, 1,
                              loc[t].out_of_fs, 0)
       IN IF r.diverges
          THEN Goto(t, "diverged") /\ UNCHANGED loc
          ELSE /\ Goto(t, "eval_path:187")
               /\ loc' = [loc EXCEPT ![t].obj = r.obj,
                                     ![t].out_of_fs = r.out_of_fs]
    /\ UNCHANGED <<objs, dev, lock, iop, emitted>>

\* lines 203-206: step back over the dividers before out_of_fs
BackOverDividers(s, i) ==
    CHOOSE j \in 1..i :
        /\ ~is_path_divider(CharAt(s, j - 1))
        /\ \A k \in (j + 1)..i : is_path_divider(CharAt(s, k - 1))

\* out_of_fs - pathname for pointers into two different strings: any value
UnrelatedDifference == {-100, 0, 100}

\* lines 201-207: the call handed to the mount point's evalpath_h
\* (diff is out_of_fs - pathname after the stepping back)
DelegatedCall(pathname, oof, diff) ==
    LET s == Text(pathname, oof.buf)
        j == BackOverDividers(s, oof.off)
        extra == oof.off - j
    IN [buf |-> oof.buf, off |-> j - 2,
        len |-> Len(pathname) - diff + 2 + extra]

\* line 201: the node the volume is mounted on, an object of another volume
mt_point_node == -1

\* lines 188-208; the result is what the mount point's evalpath_h returns
ycb_eval_path_null(t) ==
    /\ pc[t] = "eval_path:188"
    /\ loc[t].obj = NULL
    /\ Goto(t, "ret")
    /\ IF loc[t].out_of_fs = NullPtr
       THEN loc' = [loc EXCEPT ![t].ret = -1, ![t].errno = "ENOENT"]
       ELSE LET oof == loc[t].out_of_fs
                j == BackOverDividers(Text(loc[t].pathname, oof.buf), oof.off)
            IN \E diff \in (IF oof.buf = 0 THEN {j - 1}
                             ELSE UnrelatedDifference), r \in {0, -1} :
                  loc' = [loc EXCEPT
                            ![t].ret = r,
                            ![t].node_access = mt_point_node,
                            ![t].evalpath_h =
                                DelegatedCall(loc[t].pathname, oof, diff)]
    /\ UNCHANGED <<objs, dev, lock, iop, emitted>>

\* line 188, obj != NULL
ycb_eval_path_found(t) ==
    /\ pc[t] = "eval_path:188"
    /\ loc[t].obj # NULL
    /\ Goto(t, "eval_path:209")
    /\ UNCHANGED <<objs, dev, lock, loc, iop, emitted>>

\* a read of a field of an object that was deleted yields anything
Variants == {"UNKNOWN", "FILE", "SYMLINK", "DIRECTORY", "HARDLINK", "SPECIAL"}
ReadVariantType(o) ==
    IF objs[o].live THEN {objs[o].variant_type} ELSE Variants

\* lines 209-222
ycb_eval_path_bind(t) ==
    /\ pc[t] = "eval_path:209"
    /\ Goto(t, "ret")
    /\ \E v \in ReadVariantType(loc[t].obj) :
          loc' = [loc EXCEPT
                    ![t].node_access = loc[t].obj,
                    ![t].handlers = IF v = "DIRECTORY"
                                    THEN "yaffs_directory_handlers"
                                    ELSE IF v = "FILE" THEN "yaffs_file_handlers"
                                    ELSE @,
                    ![t].ret = IF v \in {"DIRECTORY", "FILE"} THEN 0 ELSE -1,
                    ![t].errno = IF v \in {"DIRECTORY", "FILE"} THEN @
                                 ELSE "ENOSYS"]
    /\ UNCHANGED <<objs, dev, lock, iop, emitted>>

ycb_eval_path(t) ==
    \/ ylock(t, "eval_path:185", "eval_path:186")
    \/ ycb_eval_path_find(t)
    \/ yunlock(t, "eval_path:187", "eval_path:188")
    \/ ycb_eval_path_null(t)
    \/ ycb_eval_path_found(t)
    \/ ycb_eval_path_bind(t)

-----------------------------------------------------------------------------
(* Directory handles: ycb_dir_open, ycb_dir_close, ycb_dir_read,           *)
(* ycb_dir_lseek, lines 488-554                                            *)

\* sizeof(struct dirent), set by the C library; counts are in bytes
SizeofDirent == 280

\* the host opened a directory it resolved: lines 488-492 do nothing
ycb_dir_open(t) ==
    /\ pc[t] = "idle"
    /\ iop[t].node_access = NULL
    /\ \E d \in {o \in Bindable : objs[o].variant_type = "DIRECTORY"} :
          iop' = [iop EXCEPT ![t] = [ClosedIop EXCEPT !.node_access = d]]
    /\ emitted' = [emitted EXCEPT ![t] = <<>>]
    /\ UNCHANGED <<objs, dev, lock, pc, loc>>

\* lines 494-498 do nothing; the host frees the handle
ycb_dir_close(t) ==
    /\ pc[t] = "idle"
    /\ iop[t].node_access # NULL
    /\ iop' = [iop EXCEPT ![t] = ClosedIop]
    /\ emitted' = [emitted EXCEPT ![t] = <<>>]
    /\ UNCHANGED <<objs, dev, lock, pc, loc>>

\* lines 516-521: the first child of the directory, NULL for an empty list
FirstChild(dir) ==
    IF objs[dir].children = <<>> THEN NULL ELSE objs[dir].children[1]

\* lines 532-536: the sibling after o in the directory's list, NULL at its end
SameSibling(dir, o) == o
NextSibling(dir, o) ==
    LET ch == objs[dir].children
        i == CHOOSE k \in 1..Len(ch) : ch[k] = o
    IN IF i = Len(ch) THEN NULL ELSE ch[i + 1]

\* lines 525-529: the entry written for child o
Dirent(o) ==
    [d_ino |-> yaffs_get_equivalent_obj(o), d_off |-> 0,
     d_name |-> yaffs_get_obj_name(o, NAME_MAX),
     d_reclen |-> SizeofDirent]

\* lines 523-537: the loop, from entry i with the cursor at data1
RECURSIVE DirReadLoop(_, _, _, _, _)
DirReadLoop(dir, data1, i, maxcount, de) ==
    IF i < maxcount /\ data1 # NULL
    THEN DirReadLoop(dir, NextSibling(dir, data1), i + 1, maxcount,
                     Append(de, Dirent(data1)))
    ELSE [de |-> de, data1 |-> data1]

\* the cursor is NULL or refers to a child still in the directory's list
CursorValid(dir, data1) ==
    \/ data1 = NULL
    \/ /\ objs[data1].live
       /\ \E k \in 1..Len(objs[dir].children) : objs[dir].children[k] = data1

\* lines 516-537.  Following a cursor whose object was deleted reads freed
\* memory: the read then hands out anything and leaves any cursor.
DirReadOutcomes(dir, offset, data1, maxcount) ==
    LET start == IF offset = 0 THEN FirstChild(dir) ELSE data1
    IN IF maxcount = 0 \/ CursorValid(dir, start)
       THEN {DirReadLoop(dir, start, 0, maxcount, <<>>)}
       ELSE {[de |-> <<[d_ino |-> x, d_off |-> 0, d_name |-> <<>>,
                        d_reclen |-> SizeofDirent]>>,
              data1 |-> x] : x \in {NULL} \cup Obj}

\* lines 500-512
ycb_dir_read_call(t, counts) ==
    /\ pc[t] = "idle"
    /\ iop[t].node_access # NULL
    /\ objs[iop[t].node_access].variant_type = "DIRECTORY"
    /\ Goto(t, "dir_read:514")
    /\ \E count \in counts :
          loc' = [loc EXCEPT ![t] = [Idle EXCEPT !.op = "dir_read",
                                                !.obj = iop[t].node_access,
                                                !.count = count]]
    /\ UNCHANGED <<objs, dev, lock, iop, emitted>>

\* lines 516-540
ycb_dir_read_entries(t) ==
    /\ pc[t] = "dir_read:516"
    /\ Goto(t, "dir_read:542")
    /\ \E out \in DirReadOutcomes(loc[t].obj, iop[t].offset, iop[t].data1,
                                   loc[t].count \div SizeofDirent) :
          LET readlen == Len(out.de) * SizeofDirent
          IN /\ iop' = [iop EXCEPT ![t].data1 = out.data1,
                                   ![t].offset = @ + readlen]
             /\ loc' = [loc EXCEPT ![t].de = out.de, ![t].ret = readlen]
             /\ emitted' = [emitted EXCEPT ![t] = @ \o out.de]
    /\ UNCHANGED <<objs, dev, lock>>

ycb_dir_read(t) ==
    \/ ylock(t, "dir_read:514", "dir_read:516")
    \/ ycb_dir_read_entries(t)
    \/ yunlock(t, "dir_read:542", "ret")

\* line 552: the handle after the rewind; the cursor data1 stays as it is
NotRewound(h) == h

Rewound(h) == [h EXCEPT !.offset = 0]

\* lines 547-554, in one step: the function touches the handle only
ycb_dir_lseek(t) ==
    /\ pc[t] = "idle"
    /\ iop[t].node_access # NULL
    /\ objs[iop[t].node_access].variant_type = "DIRECTORY"
    /\ Goto(t, "ret")
    /\ \E length \in {0, SizeofDirent}, whence \in {"SEEK_SET", "SEEK_CUR"} :
          IF whence # "SEEK_SET" \/ length # 0
          THEN /\ loc' = [loc EXCEPT ![t] = [Idle EXCEPT !.op = "dir_lseek",
                                                         !.length = length,
                                                         !.whence = whence,
                                                         !.ret = -1,
                                                         !.errno = "ENOTSUP"]]
               /\ UNCHANGED <<iop, emitted>>
          ELSE /\ loc' = [loc EXCEPT ![t] = [Idle EXCEPT !.op = "dir_lseek",
                                                         !.length = length,
                                                         !.whence = whence]]
               /\ iop' = [iop EXCEPT ![t] = Rewound(@)]
               /\ emitted' = [emitted EXCEPT ![t] = <<>>]
    /\ UNCHANGED <<objs, dev, lock>>

-----------------------------------------------------------------------------
(* Engine primitives that change the graph *)

\* object slots the engine never used; a deleted object's slot stays unused
FreeSlots == {o \in Obj : ~objs[o].live /\ objs[o].variant_type = "UNKNOWN"}

\* the graph after the engine made object o, as rec, the last child of parent
AddChild(parent, o, rec) ==
    [objs EXCEPT ![o] = rec, ![parent].children = Append(@, o)]

yaffs_create_dir(parent, name, mode, o) ==
    AddChild(parent, o, [DirObj(parent, name, <<>>) EXCEPT !.yst_mode = mode])

yaffs_create_file(parent, name, mode, o) ==
    AddChild(parent, o, [FileObj(parent, name, 0) EXCEPT !.yst_mode = mode])

\* what a create primitive can return: NULL (the engine refuses, for any
\* reason of its own) or the new object
CreateOutcomes ==
    {NULL} \cup (IF FreeSlots = {} THEN {}
                 ELSE {CHOOSE o \in FreeSlots : \A x \in FreeSlots : o <= x})

\* a sequence without its elements equal to x
RECURSIVE Without(_, _)
Without(seq, x) ==
    IF seq = <<>> THEN <<>>
    ELSE IF Head(seq) = x THEN Without(Tail(seq), x)
    ELSE <<Head(seq)>> \o Without(Tail(seq), x)

\* yaffs_del_obj succeeds on anything but a directory that has children
CanDelete(o) ==
    objs[o].variant_type # "DIRECTORY" \/ objs[o].children = <<>>

yaffs_del_obj(o) ==
    [objs EXCEPT ![o].live = FALSE, ![o].children = <<>>,
                 ![objs[o].parent].children = Without(@, o)]

\* d is o or lies below o
RECURSIVE IsBelow(_, _)
IsBelow(d, o) ==
    IF d = NULL THEN FALSE
    ELSE IF d = o THEN TRUE
    ELSE IsBelow(objs[d].parent, o)

\* yaffs_rename_obj can move the child of old_dir named old_name to new_dir
\* under new_name
CanRename(old_dir, old_name, new_dir, new_name) ==
    /\ old_dir # NULL
    /\ yaffs_find_by_name(old_dir, old_name) # NULL
    /\ objs[new_dir].variant_type = "DIRECTORY"
    /\ yaffs_find_by_name(new_dir, new_name) = NULL
    /\ ~IsBelow(new_dir, yaffs_find_by_name(old_dir, old_name))

yaffs_rename_obj(old_dir, old_name, new_dir, new_name) ==
    LET o == yaffs_find_by_name(old_dir, old_name)
        moved == [objs EXCEPT ![o].name = new_name, ![o].parent = new_dir,
                              ![old_dir].children = Without(@, o)]
    IN [moved EXCEPT ![new_dir].children = Append(@, o)]

-----------------------------------------------------------------------------
(* What the host guarantees about the locations it hands to entry points *)

\* object o is the location of a call thread t2 is in, or of its open handle
HeldBy(t2, o) ==
    \/ iop[t2].node_access = o
    \/ /\ pc[t2] # "idle"
       /\ o \in {loc[t2].node_access, loc[t2].start, loc[t2].new_parent}

\* a location the host can pass to an entry point of a mounted volume
Location(o) == dev.is_mounted /\ o \in Bindable

Directories == {o \in Obj : Location(o) /\ objs[o].variant_type = "DIRECTORY"}

-----------------------------------------------------------------------------
(* ycb_mknod, lines 310-369 *)

\* obj->my_dev->read_only (lines 327, 463, 607, 645, 711): the one volume's flag
NeverReadOnly(obj) == FALSE

read_only(obj) == dev.read_only

S_IFMT == 61440
S_IFDIR == 16384
S_IFREG == 32768
S_IFCHR == 8192
S_IFLNK == 40960

\* mode & S_IFMT
FileType(mode) == ((mode \div 4096) % 16) * 4096

S_ISDIR(mode) == FileType(mode) = S_IFDIR
S_ISREG(mode) == FileType(mode) = S_IFREG

\* strchr: the place of the first ch in s, 0 if there is none
strchr(s, ch) ==
    IF \E i \in 1..Len(s) : s[i] = ch
    THEN CHOOSE i \in 1..Len(s) : s[i] = ch /\ \A j \in 1..(i - 1) : s[j] # ch
    ELSE 0

\* lines 318-325: the copy of path, cut at its first "/"
WholeName(path) == path
NameOf(path) ==
    IF strchr(path, "/") # 0 THEN SubSeq(path, 1, strchr(path, "/") - 1)
    ELSE path

\* line 335: the parent has an entry of that name
DirectoryNamed(parent, name) ==
    /\ yaffs_find_by_name(parent, name) # NULL
    /\ objs[yaffs_find_by_name(parent, name)].variant_type = "DIRECTORY"
EntryNamed(parent, name) == yaffs_find_by_name(parent, name) # NULL

\* the host calls ycb_mknod(path, mode, dev, pathloc) with the name and the
\* directory ycb_eval_path_for_make gave it
ycb_mknod_call(t, names, modes) ==
    /\ pc[t] = "idle"
    /\ Goto(t, "mknod:318")
    /\ \E path \in names, mode \in modes, parent \in Directories :
          loc' = [loc EXCEPT ![t] = [Idle EXCEPT !.op = "mknod",
                                                !.pathname = path,
                                                !.mode = mode,
                                                !.start = parent,
                                                !.node_access = parent]]
    /\ UNCHANGED <<objs, dev, lock, iop, emitted>>

\* lines 318-325; strdup can fail
ycb_mknod_strdup(t) ==
    /\ pc[t] = "mknod:318"
    /\ \/ /\ Goto(t, "ret")
          /\ loc' = [loc EXCEPT ![t].ret = -1, ![t].errno = "ENOMEM"]
       \/ /\ Goto(t, "mknod:327")
          /\ loc' = [loc EXCEPT ![t].name = NameOf(loc[t].pathname)]
    /\ UNCHANGED <<objs, dev, lock, iop, emitted>>

\* lines 327-331
ycb_mknod_read_only(t) ==
    /\ pc[t] = "mknod:327"
    /\ IF read_only(loc[t].node_access)
       THEN /\ Goto(t, "ret")
            /\ loc' = [loc EXCEPT ![t].ret = -1, ![t].errno = "EROFS"]
       ELSE /\ Goto(t, "mknod:333")
            /\ UNCHANGED loc
    /\ UNCHANGED <<objs, dev, lock, iop, emitted>>

\* lines 335-364; obj is the object the engine made (dir or file in the code)
ycb_mknod_create(t) ==
    /\ pc[t] = "mknod:335"
    /\ Goto(t, "mknod:366")
    /\ LET parent == loc[t].node_access
           name == loc[t].name
           mode == loc[t].mode
           Fail(e) == /\ loc' = [loc EXCEPT ![t].ret = -1, ![t].errno = e]
                      /\ UNCHANGED objs
       IN IF EntryNamed(parent, name) THEN Fail("EEXIST")
          ELSE IF S_ISDIR(mode) \/ S_ISREG(mode)
          THEN \E o \in CreateOutcomes :
                  IF o = NULL THEN Fail("ENOSPC")
                  ELSE /\ objs' = IF S_ISDIR(mode)
                                  THEN yaffs_create_dir(parent, name, mode, o)
                                  ELSE yaffs_create_file(parent, name, mode, o)
                       /\ loc' = [loc EXCEPT ![t].obj = o]
          ELSE Fail("ENOSYS")
    /\ UNCHANGED <<dev, lock, iop, emitted>>

ycb_mknod(t) ==
    \/ ycb_mknod_strdup(t)
    \/ ycb_mknod_read_only(t)
    \/ ylock(t, "mknod:333", "mknod:335")
    \/ ycb_mknod_create(t)
    \/ yunlock(t, "mknod:366", "ret")

-----------------------------------------------------------------------------
(* ycb_fchmod, lines 595-631; only directories have it as their fchmod_h   *)

\* 0777, the permission bits
PermissionBits == 511

\* line 601: mode & ~(0777u)
WiderMask(mode) == mode \div (4 * (PermissionBits + 1)) # 0
OutsidePermissionBits(mode) == mode \div (PermissionBits + 1) # 0

\* line 620: (yst_mode & ~0777u) | mode, for a mode within the permission bits
WithPermissions(yst_mode, mode) ==
    (yst_mode \div (PermissionBits + 1)) * (PermissionBits + 1) + mode

ycb_fchmod_call(t, modes) ==
    /\ pc[t] = "idle"
    /\ Goto(t, "fchmod:601")
    /\ \E obj \in Directories, mode \in modes :
          loc' = [loc EXCEPT ![t] = [Idle EXCEPT !.op = "fchmod",
                                                !.mode = mode,
                                                !.start = obj,
                                                !.node_access = obj]]
    /\ UNCHANGED <<objs, dev, lock, iop, emitted>>

\* lines 601-604
ycb_fchmod_mode(t) ==
    /\ pc[t] = "fchmod:601"
    /\ IF OutsidePermissionBits(loc[t].mode)
       THEN /\ Goto(t, "ret")
            /\ loc' = [loc EXCEPT ![t].ret = -1, ![t].errno = "EINVAL"]
       ELSE /\ Goto(t, "fchmod:606")
            /\ UNCHANGED loc
    /\ UNCHANGED <<objs, dev, lock, iop, emitted>>

\* lines 606-612
ycb_fchmod_read_only(t) ==
    /\ pc[t] = "fchmod:606"
    /\ IF read_only(loc[t].node_access)
       THEN /\ Goto(t, "ret")
            /\ loc' = [loc EXCEPT ![t].ret = -1, ![t].errno = "EROFS"]
       ELSE /\ Goto(t, "fchmod:614")
            /\ loc' = [loc EXCEPT ![t].obj = loc[t].node_access]
    /\ UNCHANGED <<objs, dev, lock, iop, emitted>>

\* lines 624-629: where the call goes on after the flush
ReturnOnFailure(result) ==
    IF result # "YAFFS_OK" THEN "fchmod:626" ELSE "fchmod:629"
AfterFlush(result) ==
    IF result # "YAFFS_OK" THEN "fchmod:625" ELSE "fchmod:629"

\* lines 616-624; yaffs_flush_file reports YAFFS_OK or YAFFS_FAIL
ycb_fchmod_modify(t) ==
    /\ pc[t] = "fchmod:616"
    /\ LET obj == yaffs_get_equivalent_obj(loc[t].obj)
       IN IF obj # NULL
          THEN /\ objs' = [objs EXCEPT
                             ![obj].yst_mode = WithPermissions(@, loc[t].mode),
                             ![obj].dirty = 1]
               /\ \E result \in {"YAFFS_OK", "YAFFS_FAIL"} :
                     /\ loc' = [loc EXCEPT ![t].obj = obj, ![t].r = result]
                     /\ Goto(t, AfterFlush(result))
          ELSE /\ UNCHANGED objs
               /\ loc' = [loc EXCEPT ![t].obj = obj, ![t].r = "YAFFS_FAIL"]
               /\ Goto(t, AfterFlush("YAFFS_FAIL"))
    /\ UNCHANGED <<dev, lock, iop, emitted>>

\* lines 626-627
ycb_fchmod_fail(t) ==
    /\ pc[t] = "fchmod:626"
    /\ Goto(t, "ret")
    /\ loc' = [loc EXCEPT ![t].ret = -1, ![t].errno = "EIO"]
    /\ UNCHANGED <<objs, dev, lock, iop, emitted>>

ycb_fchmod(t) ==
    \/ ycb_fchmod_mode(t)
    \/ ycb_fchmod_read_only(t)
    \/ ylock(t, "fchmod:614", "fchmod:616")
    \/ ycb_fchmod_modify(t)
    \/ yunlock(t, "fchmod:625", "fchmod:626")
    \/ ycb_fchmod_fail(t)
    \/ yunlock(t, "fchmod:629", "ret")

-----------------------------------------------------------------------------
(* ycb_dir_rmnod, lines 638-658 (ycb_unlink, lines 283-286, calls it)      *)

\* the host removes a node nobody else is using, and never the root
ycb_dir_rmnod_call(t) ==
    /\ pc[t] = "idle"
    /\ Goto(t, "rmnod:645")
    /\ \E obj \in {o \in Obj : Location(o) /\ o # Root} :
          /\ \A t2 \in Threads \ {t} : ~HeldBy(t2, obj)
          /\ iop[t].node_access # obj
          /\ loc' = [loc EXCEPT ![t] = [Idle EXCEPT !.op = "rmnod",
                                                   !.start = obj,
                                                   !.node_access = obj]]
    /\ UNCHANGED <<objs, dev, lock, iop, emitted>>

\* lines 644-649
ycb_dir_rmnod_read_only(t) ==
    /\ pc[t] = "rmnod:645"
    /\ IF read_only(loc[t].node_access)
       THEN /\ Goto(t, "ret")
            /\ loc' = [loc EXCEPT ![t].ret = -1, ![t].errno = "EROFS"]
       ELSE /\ Goto(t, "rmnod:650")
            /\ loc' = [loc EXCEPT ![t].obj = loc[t].node_access]
    /\ UNCHANGED <<objs, dev, lock, iop, emitted>>

\* line 651
ycb_dir_rmnod_del(t) ==
    /\ pc[t] = "rmnod:651"
    /\ Goto(t, "rmnod:652")
    /\ IF CanDelete(loc[t].obj)
       THEN /\ objs' = yaffs_del_obj(loc[t].obj)
            /\ loc' = [loc EXCEPT ![t].r = "YAFFS_OK"]
       ELSE /\ UNCHANGED objs
            /\ loc' = [loc EXCEPT ![t].r = "YAFFS_FAIL"]
    /\ UNCHANGED <<dev, lock, iop, emitted>>

\* lines 653-657
ycb_dir_rmnod_result(t) ==
    /\ pc[t] = "rmnod:653"
    /\ Goto(t, "ret")
    /\ IF loc[t].r = "YAFFS_FAIL"
       THEN loc' = [loc EXCEPT ![t].ret = -1, ![t].errno = "ENOTEMPTY"]
       ELSE UNCHANGED loc
    /\ UNCHANGED <<objs, dev, lock, iop, emitted>>

ycb_dir_rmnod(t) ==
    \/ ycb_dir_rmnod_read_only(t)
    \/ ylock(t, "rmnod:650", "rmnod:651")
    \/ ycb_dir_rmnod_del(t)
    \/ yunlock(t, "rmnod:652", "rmnod:653")
    \/ ycb_dir_rmnod_result(t)

-----------------------------------------------------------------------------
(* ycb_rename, lines 453-478 *)

\* the host renames a node nobody else is using, and never the root
ycb_rename_call(t, names) ==
    /\ pc[t] = "idle"
    /\ Goto(t, "rename:463")
    /\ \E obj \in {o \in Obj : Location(o) /\ o # Root},
          new_parent \in Directories, name \in names :
          /\ \A t2 \in Threads \ {t} : ~HeldBy(t2, obj)
          /\ iop[t].node_access # obj
          /\ loc' = [loc EXCEPT ![t] = [Idle EXCEPT !.op = "rename",
                                                   !.start = obj,
                                                   !.node_access = obj,
                                                   !.new_parent = new_parent,
                                                   !.name = name]]
    /\ UNCHANGED <<objs, dev, lock, iop, emitted>>

\* lines 460-466
ycb_rename_read_only(t) ==
    /\ pc[t] = "rename:463"
    /\ IF read_only(loc[t].node_access)
       THEN /\ Goto(t, "ret")
            /\ loc' = [loc EXCEPT ![t].ret = -1, ![t].errno = "EROFS"]
       ELSE /\ Goto(t, "rename:468")
            /\ loc' = [loc EXCEPT ![t].obj = loc[t].node_access]
    /\ UNCHANGED <<objs, dev, lock, iop, emitted>>

\* lines 469-471; the engine can fail for reasons of its own
ycb_rename_obj(t) ==
    /\ pc[t] = "rename:469"
    /\ LET obj == loc[t].obj
           oldname == yaffs_get_obj_name(obj, NAME_MAX)
           Failed == /\ UNCHANGED objs
                     /\ loc' = [loc EXCEPT ![t].r = "YAFFS_FAIL"]
                     /\ Goto(t, "rename:472")
       IN \/ Failed
          \/ /\ CanRename(objs[obj].parent, oldname, loc[t].new_parent,
                          loc[t].name)
             /\ objs' = yaffs_rename_obj(objs[obj].parent, oldname,
                                         loc[t].new_parent, loc[t].name)
             /\ loc' = [loc EXCEPT ![t].r = "YAFFS_OK"]
             /\ Goto(t, "rename:476")
    /\ UNCHANGED <<dev, lock, iop, emitted>>

\* lines 473-474
ycb_rename_fail(t) ==
    /\ pc[t] = "rename:473"
    /\ Goto(t, "ret")
    /\ loc' = [loc EXCEPT ![t].ret = -1, ![t].errno = "EIO"]
    /\ UNCHANGED <<objs, dev, lock, iop, emitted>>

ycb_rename(t) ==
    \/ ycb_rename_read_only(t)
    \/ ylock(t, "rename:468", "rename:469")
    \/ ycb_rename_obj(t)
    \/ yunlock(t, "rename:472", "rename:473")
    \/ ycb_rename_fail(t)
    \/ yunlock(t, "rename:476", "ret")

-----------------------------------------------------------------------------
(* File handles: ycb_file_open, ycb_file_close, ycb_file_ftruncate,        *)
(* lines 660-670 and 752-769                                               *)

\* the host opened a file it resolved: lines 660-664 do nothing
ycb_file_open(t) ==
    /\ pc[t] = "idle"
    /\ iop[t].node_access = NULL
    /\ \E f \in {o \in Obj : Location(o) /\ objs[o].variant_type = "FILE"} :
          iop' = [iop EXCEPT ![t] = [ClosedIop EXCEPT !.node_access = f,
                                                      !.size = objs[f].length]]
    /\ UNCHANGED <<objs, dev, lock, pc, loc, emitted>>

\* lines 666-670 do nothing; the host frees the handle
ycb_file_close(t) ==
    /\ pc[t] = "idle"
    /\ iop[t].node_access # NULL
    /\ objs[iop[t].node_access].variant_type = "FILE"
    /\ iop' = [iop EXCEPT ![t] = ClosedIop]
    /\ UNCHANGED <<objs, dev, lock, pc, loc, emitted>>

\* lines 752-759
ycb_file_ftruncate_call(t, lengths) ==
    /\ pc[t] = "idle"
    /\ iop[t].node_access # NULL
    /\ objs[iop[t].node_access].variant_type = "FILE"
    /\ Goto(t, "ftruncate:760")
    /\ \E length \in lengths :
          loc' = [loc EXCEPT ![t] = [Idle EXCEPT !.op = "ftruncate",
                                                !.obj = iop[t].node_access,
                                                !.length = length]]
    /\ UNCHANGED <<objs, dev, lock, iop, emitted>>

\* line 761; yaffs_resize_file reports YAFFS_OK or YAFFS_FAIL
ycb_file_ftruncate_resize(t) ==
    /\ pc[t] = "ftruncate:761"
    /\ Goto(t, "ftruncate:762")
    /\ \/ /\ objs' = [objs EXCEPT ![loc[t].obj].length = loc[t].length]
          /\ loc' = [loc EXCEPT ![t].r = "YAFFS_OK"]
       \/ /\ UNCHANGED objs
          /\ loc' = [loc EXCEPT ![t].r = "YAFFS_FAIL"]
    /\ UNCHANGED <<dev, lock, iop, emitted>>

\* lines 763-768
ycb_file_ftruncate_result(t) ==
    /\ pc[t] = "ftruncate:763"
    /\ Goto(t, "ret")
    /\ IF loc[t].r = "YAFFS_FAIL"
       THEN /\ loc' = [loc EXCEPT ![t].ret = -1, ![t].errno = "EIO"]
            /\ UNCHANGED iop
       ELSE /\ iop' = [iop EXCEPT ![t].size = loc[t].length]
            /\ UNCHANGED loc
    /\ UNCHANGED <<objs, dev, lock, emitted>>

ycb_file_ftruncate(t) ==
    \/ ylock(t, "ftruncate:760", "ftruncate:761")
    \/ ycb_file_ftruncate_resize(t)
    \/ yunlock(t, "ftruncate:762", "ftruncate:763")
    \/ ycb_file_ftruncate_result(t)

-----------------------------------------------------------------------------
(* ycb_utime, lines 413-430, and ycb_fstat, lines 556-593 *)

ycb_utime_call(t, times) ==
    /\ pc[t] = "idle"
    /\ Goto(t, "utime:421")
    /\ \E obj \in {o \in Obj : Location(o)}, actime \in times, modtime \in times :
          loc' = [loc EXCEPT ![t] = [Idle EXCEPT !.op = "utime",
                                                !.start = obj,
                                                !.node_access = obj,
                                                !.obj = obj,
                                                !.actime = actime,
                                                !.modtime = modtime]]
    /\ UNCHANGED <<objs, dev, lock, iop, emitted>>

\* lines 422-427
ycb_utime_modify(t) ==
    /\ pc[t] = "utime:422"
    /\ Goto(t, "utime:428")
    /\ LET obj == yaffs_get_equivalent_obj(loc[t].obj)
       IN /\ loc' = [loc EXCEPT ![t].obj = obj]
          /\ IF obj # NULL
             THEN objs' = [objs EXCEPT ![obj].dirty = 1,
                                       ![obj].yst_atime = loc[t].actime,
                                       ![obj].yst_ctime = loc[t].actime,
                                       ![obj].yst_mtime = loc[t].modtime]
             ELSE UNCHANGED objs
    /\ UNCHANGED <<dev, lock, iop, emitted>>

ycb_utime(t) ==
    \/ ylock(t, "utime:421", "utime:422")
    \/ ycb_utime_modify(t)
    \/ yunlock(t, "utime:428", "ret")

ycb_fstat_call(t) ==
    /\ pc[t] = "idle"
    /\ Goto(t, "fstat:564")
    /\ \E obj \in {o \in Obj : Location(o)} :
          loc' = [loc EXCEPT ![t] = [Idle EXCEPT !.op = "fstat",
                                                !.start = obj,
                                                !.node_access = obj,
                                                !.obj = obj]]
    /\ UNCHANGED <<objs, dev, lock, iop, emitted>>

\* lines 569-576: the permission bits with the type of the variant
StatMode(o) ==
    (objs[o].yst_mode - FileType(objs[o].yst_mode))
    + (IF objs[o].variant_type = "DIRECTORY" THEN S_IFDIR
       ELSE IF objs[o].variant_type = "SYMLINK" THEN S_IFLNK
       ELSE IF objs[o].variant_type = "FILE" THEN S_IFREG
       ELSE 0)

\* lines 566-588
ycb_fstat_fill(t) ==
    /\ pc[t] = "fstat:566"
    /\ Goto(t, "fstat:590")
    /\ LET obj == yaffs_get_equivalent_obj(loc[t].obj)
       IN loc' = [loc EXCEPT ![t].obj = obj,
                             ![t].buf = [st_ino |-> obj,
                                         st_mode |-> StatMode(obj),
                                         st_size |-> objs[obj].length,
                                         st_atime |-> objs[obj].yst_atime,
                                         st_ctime |-> objs[obj].yst_ctime,
                                         st_mtime |-> objs[obj].yst_mtime]]
    /\ UNCHANGED <<objs, dev, lock, iop, emitted>>

ycb_fstat(t) ==
    \/ ylock(t, "fstat:564", "fstat:566")
    \/ ycb_fstat_fill(t)
    \/ yunlock(t, "fstat:590", "ret")

-----------------------------------------------------------------------------
(* ycb_file_read, ycb_file_write, ycb_file_lseek, lines 672-750 *)

FileHandle(t) ==
    /\ iop[t].node_access # NULL
    /\ objs[iop[t].node_access].variant_type = "FILE"

ycb_file_read_call(t, counts) ==
    /\ pc[t] = "idle"
    /\ FileHandle(t)
    /\ Goto(t, "file_read:683")
    /\ \E count \in counts :
          loc' = [loc EXCEPT ![t] = [Idle EXCEPT !.op = "file_read",
                                                !.obj = iop[t].node_access,
                                                !.count = count]]
    /\ UNCHANGED <<objs, dev, lock, iop, emitted>>

\* lines 686-689: the bytes between the handle's offset and the end of the file
WholeLength(ol, offset) == ol

maxread(ol, offset) == IF offset >= ol THEN 0 ELSE ol - offset

\* yaffs_file_rd gives the bytes read or a negative number; a read of no bytes
\* touches no chunk and gives 0
yaffs_file_rd(count) == IF count > 0 THEN {count, -1} ELSE {0}

\* lines 685-693
ycb_file_read_rd(t) ==
    /\ pc[t] = "file_read:685"
    /\ Goto(t, "file_read:695")
    /\ LET ol == objs[loc[t].obj].length
           count == IF loc[t].count > maxread(ol, iop[t].offset)
                    THEN maxread(ol, iop[t].offset)
                    ELSE loc[t].count
       IN \E nr \in yaffs_file_rd(count) :
             loc' = [loc EXCEPT ![t].count = count, ![t].ret = nr]
    /\ UNCHANGED <<objs, dev, lock, iop, emitted>>

\* lines 697-701
ycb_file_read_result(t) ==
    /\ pc[t] = "file_read:697"
    /\ Goto(t, "ret")
    /\ IF loc[t].ret < 0
       THEN loc' = [loc EXCEPT ![t].ret = -1, ![t].errno = "ENOSPC"]
       ELSE UNCHANGED loc
    /\ UNCHANGED <<objs, dev, lock, iop, emitted>>

ycb_file_read(t) ==
    \/ ylock(t, "file_read:683", "file_read:685")
    \/ ycb_file_read_rd(t)
    \/ yunlock(t, "file_read:695", "file_read:697")
    \/ ycb_file_read_result(t)

ycb_file_write_call(t, counts) ==
    /\ pc[t] = "idle"
    /\ FileHandle(t)
    /\ Goto(t, "file_write:711")
    /\ \E count \in counts :
          loc' = [loc EXCEPT ![t] = [Idle EXCEPT !.op = "file_write",
                                                !.obj = iop[t].node_access,
                                                !.count = count]]
    /\ UNCHANGED <<objs, dev, lock, iop, emitted>>

\* lines 710-715
ycb_file_write_read_only(t) ==
    /\ pc[t] = "file_write:711"
    /\ IF read_only(loc[t].node_access)
       THEN /\ Goto(t, "ret")
            /\ loc' = [loc EXCEPT ![t].ret = -1, ![t].errno = "EROFS"]
       ELSE /\ Goto(t, "file_write:716")
            /\ UNCHANGED loc
    /\ UNCHANGED <<objs, dev, lock, iop, emitted>>

\* line 717; yaffs_wr_file gives the bytes written or a negative number
ycb_file_write_wr(t) ==
    /\ pc[t] = "file_write:717"
    /\ Goto(t, "file_write:718")
    /\ \/ /\ loc' = [loc EXCEPT ![t].ret = -1]
          /\ UNCHANGED objs
       \/ /\ loc' = [loc EXCEPT ![t].ret = loc[t].count]
          /\ objs' = [objs EXCEPT ![loc[t].obj].length =
                         IF iop[t].offset + loc[t].count > @
                         THEN iop[t].offset + loc[t].count ELSE @]
    /\ UNCHANGED <<dev, lock, iop, emitted>>

\* lines 719-723
ycb_file_write_result(t) ==
    /\ pc[t] = "file_write:719"
    /\ Goto(t, "ret")
    /\ IF loc[t].ret < 0
       THEN loc' = [loc EXCEPT ![t].ret = -1, ![t].errno = "ENOSPC"]
       ELSE UNCHANGED loc
    /\ UNCHANGED <<objs, dev, lock, iop, emitted>>

ycb_file_write(t) ==
    \/ ycb_file_write_read_only(t)
    \/ ylock(t, "file_write:716", "file_write:717")
    \/ ycb_file_write_wr(t)
    \/ yunlock(t, "file_write:718", "file_write:719")
    \/ ycb_file_write_result(t)

ycb_file_lseek_call(t, lengths) ==
    /\ pc[t] = "idle"
    /\ FileHandle(t)
    /\ Goto(t, "file_lseek:732")
    /\ \E length \in lengths,
          whence \in {"SEEK_SET", "SEEK_CUR", "SEEK_END", "other"} :
          loc' = [loc EXCEPT ![t] = [Idle EXCEPT !.op = "file_lseek",
                                                !.obj = iop[t].node_access,
                                                !.length = length,
                                                !.whence = whence]]
    /\ UNCHANGED <<objs, dev, lock, iop, emitted>>

\* lines 732-738 and 745-749
ycb_file_lseek_switch(t) ==
    /\ pc[t] = "file_lseek:732"
    /\ IF loc[t].whence = "SEEK_SET"
       THEN /\ iop' = [iop EXCEPT ![t].offset = loc[t].length]
            /\ loc' = [loc EXCEPT ![t].ret = loc[t].length]
            /\ Goto(t, "ret")
       ELSE IF loc[t].whence = "SEEK_CUR"
       THEN /\ iop' = [iop EXCEPT ![t].offset = @ + loc[t].length]
            /\ loc' = [loc EXCEPT ![t].ret = iop[t].offset + loc[t].length]
            /\ Goto(t, "ret")
       ELSE IF loc[t].whence = "SEEK_END"
       THEN /\ UNCHANGED <<iop, loc>>
            /\ Goto(t, "file_lseek:741")
       ELSE /\ UNCHANGED iop
            /\ loc' = [loc EXCEPT ![t].ret = -1, ![t].errno = "EINVAL"]
            /\ Goto(t, "ret")
    /\ UNCHANGED <<objs, dev, lock, emitted>>

\* line 742, and the value line 749 returns
ycb_file_lseek_end(t) ==
    /\ pc[t] = "file_lseek:742"
    /\ Goto(t, "file_lseek:743")
    /\ iop' = [iop EXCEPT ![t].offset = objs[loc[t].obj].length + loc[t].length]
    /\ loc' = [loc EXCEPT ![t].ret = objs[loc[t].obj].length + loc[t].length]
    /\ UNCHANGED <<objs, dev, lock, emitted>>

ycb_file_lseek(t) ==
    \/ ycb_file_lseek_switch(t)
    \/ ylock(t, "file_lseek:741", "file_lseek:742")
    \/ ycb_file_lseek_end(t)
    \/ yunlock(t, "file_lseek:743", "ret")

-----------------------------------------------------------------------------
(* ycb_node_type, lines 288-308 *)

ycb_node_type_call(t) ==
    /\ pc[t] = "idle"
    /\ Goto(t, "node_type:293")
    /\ \E obj \in {o \in Obj : Location(o)} :
          loc' = [loc EXCEPT ![t] = [Idle EXCEPT !.op = "node_type",
                                                !.start = obj,
                                                !.node_access = obj,
                                                !.obj = obj]]
    /\ UNCHANGED <<objs, dev, lock, iop, emitted>>

\* lines 293-307
ycb_node_type(t) ==
    /\ pc[t] = "node_type:293"
    /\ Goto(t, "ret")
    /\ \E v \in ReadVariantType(loc[t].obj) :
          loc' = [loc EXCEPT
                    ![t].r = v,
                    ![t].ret = IF v = "UNKNOWN" THEN -1 ELSE 0,
                    ![t].errno = IF v = "UNKNOWN" THEN "EINVAL" ELSE @]
    /\ UNCHANGED <<objs, dev, lock, iop, emitted>>

-----------------------------------------------------------------------------
(* rtems_yaffs_mount_handler, lines 771-792, and ycb_fsunmount, lines      *)
(* 400-411.  The host mounts a volume nobody uses yet and unmounts one     *)
(* nobody uses any more.                                                   *)

Unused(t) ==
    /\ \A t2 \in Threads \ {t} : pc[t2] = "idle"
    /\ \A t2 \in Threads : iop[t2].node_access = NULL

rtems_yaffs_mount_handler_call(t) ==
    /\ pc[t] = "idle"
    /\ ~dev.is_mounted
    /\ Unused(t)
    /\ Goto(t, "mount:776")
    /\ loc' = [loc EXCEPT ![t] = [Idle EXCEPT !.op = "mount"]]
    /\ UNCHANGED <<objs, dev, lock, iop, emitted>>

\* lines 777 and 783-788; yaffs_guts_initialise can fail
rtems_yaffs_mount_handler_initialise(t) ==
    /\ pc[t] = "mount:777"
    /\ \/ /\ Goto(t, "mount:778")
          /\ loc' = [loc EXCEPT ![t].r = "YAFFS_FAIL"]
          /\ UNCHANGED dev
       \/ /\ Goto(t, "mount:789")
          /\ dev' = [dev EXCEPT !.is_mounted = TRUE]
          /\ loc' = [loc EXCEPT ![t].r = "YAFFS_OK", ![t].node_access = Root,
                                ![t].handlers = "yaffs_directory_handlers"]
    /\ UNCHANGED <<objs, lock, iop, emitted>>

\* lines 779-780
rtems_yaffs_mount_handler_fail(t) ==
    /\ pc[t] = "mount:779"
    /\ Goto(t, "ret")
    /\ loc' = [loc EXCEPT ![t].ret = -1, ![t].errno = "ENOMEM"]
    /\ UNCHANGED <<objs, dev, lock, iop, emitted>>

rtems_yaffs_mount_handler(t) ==
    \/ ylock(t, "mount:776", "mount:777")
    \/ rtems_yaffs_mount_handler_initialise(t)
    \/ yunlock(t, "mount:778", "mount:779")
    \/ rtems_yaffs_mount_handler_fail(t)
    \/ yunlock(t, "mount:789", "ret")

ycb_fsunmount_call(t) ==
    /\ pc[t] = "idle"
    /\ dev.is_mounted
    /\ Unused(t)
    /\ Goto(t, "fsunmount:404")
    /\ loc' = [loc EXCEPT ![t] = [Idle EXCEPT !.op = "fsunmount"]]
    /\ UNCHANGED <<objs, dev, lock, iop, emitted>>

\* lines 405-406: the cache is flushed and the engine torn down
ycb_fsunmount_deinitialise(t) ==
    /\ pc[t] = "fsunmount:405"
    /\ Goto(t, "fsunmount:407")
    /\ dev' = [dev EXCEPT !.is_mounted = FALSE]
    /\ objs' = [o \in Obj |-> [objs[o] EXCEPT !.dirty = 0]]
    /\ UNCHANGED <<lock, loc, iop, emitted>>

ycb_fsunmount(t) ==
    \/ ylock(t, "fsunmount:404", "fsunmount:405")
    \/ ycb_fsunmount_deinitialise(t)
    \/ yunlock(t, "fsunmount:407", "ret")

-----------------------------------------------------------------------------
(* Volumes to walk: what a flash image can hold when it is mounted *)

Paths == UNION {[1..n -> Alphabet] : n \in 0..MaxPathLen}

\* /a, /a/b, /a/a and a file /b; the root's own name is not a name in use
PlainVolume ==
    Graph(<<DirObj(NULL, <<"o">>, <<2, 4>>),
            DirObj(1, <<"a">>, <<3, 5>>),
            DirObj(2, <<"b">>, <<>>),
            FileObj(1, <<"b">>, 0),
            DirObj(2, <<"a">>, <<>>)>>)

\* the same tree, with the root's own name also the name of a child
RootNamedVolume ==
    Graph(<<DirObj(NULL, <<"a">>, <<2, 4>>),
            DirObj(1, <<"a">>, <<3, 5>>),
            DirObj(2, <<"b">>, <<>>),
            FileObj(1, <<"b">>, 0),
            DirObj(2, <<"a">>, <<>>)>>)

\* the root's own name is the name of a symlink in it: /a -> b, /b/a, /b/b
RootNamedLinkVolume ==
    Graph(<<DirObj(NULL, <<"a">>, <<2, 3>>),
            DirObj(1, <<"b">>, <<4, 5>>),
            SymlinkObj(1, <<"a">>, <<"b">>),
            DirObj(2, <<"a">>, <<>>),
            FileObj(2, <<"b">>, 0)>>)

\* /a/b is a directory; /a/a -> b (relative), /a/b/a -> /a (from the root),
\* /b -> a/a (a link to a link)
SymlinkVolume ==
    Graph(<<DirObj(NULL, <<"o">>, <<2, 6>>),
            DirObj(1, <<"a">>, <<3, 4>>),
            DirObj(2, <<"b">>, <<5>>),
            SymlinkObj(2, <<"a">>, <<"b">>),
            SymlinkObj(3, <<"a">>, <<"/", "a">>),
            SymlinkObj(1, <<"b">>, <<"a", "/", "a">>)>>)

\* /a -> ..//b leaves the volume, /b is a hard link to the file /.a/a
EscapeVolume ==
    Graph(<<DirObj(NULL, <<"o">>, <<2, 3, 4>>),
            SymlinkObj(1, <<"a">>, <<".", ".", "/", "/", "b">>),
            HardlinkObj(1, <<"b">>, 5),
            DirObj(1, <<".", "a">>, <<5>>),
            FileObj(4, <<"a">>, 0)>>)

\* /a -> b and /b -> a: a cycle of links; /.b is a special node
CycleVolume ==
    Graph(<<DirObj(NULL, <<"o">>, <<2, 3, 4>>),
            SymlinkObj(1, <<"a">>, <<"b">>),
            SymlinkObj(1, <<"b">>, <<"a">>),
            SpecialObj(1, <<".", "b">>)>>)

Volumes ==
    {PlainVolume, RootNamedVolume, RootNamedLinkVolume, SymlinkVolume,
     EscapeVolume, CycleVolume}

InitThreads ==
    /\ lock = NoThread
    /\ pc = [t \in Threads |-> "idle"]
    /\ loc = [t \in Threads |-> Idle]
    /\ iop = [t \in Threads |-> ClosedIop]
    /\ emitted = [t \in Threads |-> <<>>]

\* one thread resolving pathnames on a mounted or unmounted volume
InitResolve ==
    /\ objs \in Volumes
    /\ dev \in [is_mounted : BOOLEAN, read_only : {FALSE}]
    /\ InitThreads

NextResolve ==
    \/ ycb_eval_path_call("t1", Paths)
    \/ ycb_eval_path("t1")
    \/ Return("t1")

SpecResolve == InitResolve /\ [][NextResolve]_vars

\* buffer sizes around whole numbers of entries
Counts ==
    {0, SizeofDirent - 1, SizeofDirent, 2 * SizeofDirent + 1, 3 * SizeofDirent,
     4 * SizeofDirent}

\* one thread reading directories of a mounted volume nobody changes
InitDir ==
    /\ objs \in Volumes
    /\ dev = [is_mounted |-> TRUE, read_only |-> FALSE]
    /\ InitThreads

NextDir ==
    \/ ycb_dir_open("t1")
    \/ ycb_dir_close("t1")
    \/ ycb_dir_read_call("t1", Counts)
    \/ ycb_dir_read("t1")
    \/ ycb_dir_lseek("t1")
    \/ Return("t1")

SpecDir == InitDir /\ [][NextDir]_vars

\* /a and a file /b; three object slots are unused
SmallVolume ==
    Graph(<<DirObj(NULL, <<"o">>, <<2, 3>>),
            DirObj(1, <<"a">>, <<>>),
            FileObj(1, <<"b">>, 0)>>)

\* names as ycb_eval_path_for_make leaves them, and one with a second level
MknodNames == {<<"b">>, <<"b", "/">>, <<"a", "/", "b">>}

\* a directory, a regular file and a character device
MknodModes == {S_IFDIR + 493, S_IFREG + 420, S_IFCHR + 420}

\* two threads, each making one call of ycb_mknod on a mounted volume, one
\* after the other or at the same time
InitCreate ==
    /\ objs = SmallVolume
    /\ dev \in [is_mounted : {TRUE}, read_only : BOOLEAN]
    /\ InitThreads

NextCreate ==
    \E t \in Threads :
        \/ ycb_mknod_call(t, MknodNames, MknodModes)
        \/ ycb_mknod(t)

SpecCreate == InitCreate /\ [][NextCreate]_vars

\* the largest length of a file, and one less than the largest seek offset
MaxFileLen == 2

\* a file /b of some length; t1 truncates it once through its handle, and
\* once that call has returned t2 seeks, reads and stats through its own
InitFile ==
    /\ \E n \in 0..MaxFileLen : objs = [SmallVolume EXCEPT ![3].length = n]
    /\ dev = [is_mounted |-> TRUE, read_only |-> FALSE]
    /\ InitThreads

NextFile ==
    \/ ycb_file_open("t1")
    \/ ycb_file_ftruncate_call("t1", 0..MaxFileLen)
    \/ ycb_file_ftruncate("t1")
    \/ ycb_file_open("t2")
    \/ /\ pc["t1"] = "ret"
       /\ \/ /\ iop["t2"].offset <= MaxFileLen
             /\ ycb_file_lseek_call("t2", 0..(MaxFileLen + 1))
          \/ ycb_file_read_call("t2", 0..(MaxFileLen + 1))
          \/ ycb_fstat_call("t2")
    \/ ycb_file_lseek("t2")
    \/ ycb_file_read("t2")
    \/ ycb_fstat("t2")
    \/ Return("t2")

SpecFile == InitFile /\ [][NextFile]_vars

\* t1 reads a directory through a handle, one entry a call, while t2 makes
\* one call that removes or renames a node nobody has open
InitCursor ==
    /\ objs = PlainVolume
    /\ dev = [is_mounted |-> TRUE, read_only |-> FALSE]
    /\ InitThreads

NextCursor ==
    \/ ycb_dir_open("t1")
    \/ /\ Len(emitted["t1"]) < MaxObj
       /\ ycb_dir_read_call("t1", {SizeofDirent})
    \/ ycb_dir_read("t1")
    \/ Return("t1")
    \/ ycb_dir_rmnod_call("t2")
    \/ ycb_dir_rmnod("t2")
    \/ ycb_rename_call("t2", {<<"b">>})
    \/ ycb_rename("t2")

SpecCursor == InitCursor /\ [][NextCursor]_vars


\* the pathnames, names, modes and lengths the threads of the host use
SomePaths == {<<"b">>, <<".", ".">>}
SomeNames == {<<"b", "/">>}
SomeModes == {S_IFDIR + 493, S_IFCHR + 420}
ChmodModes == {448, PermissionBits + 1}
Lengths == {1}

\* two threads of the host, each making one call on the same volume: the
\* calls follow each other or overlap in every way the lock allows
Init ==
    /\ objs = SmallVolume
    /\ dev \in [is_mounted : BOOLEAN, read_only : BOOLEAN]
    /\ InitThreads

Next ==
    \E t \in Threads :
        \/ rtems_yaffs_mount_handler_call(t)
        \/ rtems_yaffs_mount_handler(t)
        \/ ycb_fsunmount_call(t)
        \/ ycb_fsunmount(t)
        \/ ycb_eval_path_call(t, SomePaths)
        \/ ycb_eval_path(t)
        \/ ycb_node_type_call(t)
        \/ ycb_node_type(t)
        \/ ycb_mknod_call(t, SomeNames, SomeModes)
        \/ ycb_mknod(t)
        \/ ycb_fchmod_call(t, ChmodModes)
        \/ ycb_fchmod(t)
        \/ ycb_dir_rmnod_call(t)
        \/ ycb_dir_rmnod(t)
        \/ ycb_rename_call(t, {<<"b">>})
        \/ ycb_rename(t)
        \/ ycb_file_open(t)
        \/ ycb_file_close(t)
        \/ ycb_file_ftruncate_call(t, Lengths)
        \/ ycb_file_ftruncate(t)
        \/ ycb_file_read_call(t, Lengths)
        \/ ycb_file_read(t)
        \/ ycb_file_write_call(t, Lengths)
        \/ ycb_file_write(t)
        \/ ycb_file_lseek_call(t, Lengths)
        \/ ycb_file_lseek(t)
        \/ ycb_utime_call(t, Lengths)
        \/ ycb_utime(t)
        \/ ycb_fstat_call(t)
        \/ ycb_fstat(t)
        \/ ycb_dir_open(t)
        \/ ycb_dir_close(t)
        \/ ycb_dir_read_call(t, {SizeofDirent})
        \/ ycb_dir_read(t)
        \/ ycb_dir_lseek(t)

Spec == Init /\ [][Next]_vars


-----------------------------------------------------------------------------
(* The vocabulary of the statements about the walk *)

\* h_find_object has returned to ycb_eval_path in thread t
Walked(t) == loc[t].op = "eval_path" /\ pc[t] = "eval_path:187"

\* the segments of a path: the runs of characters between "/"
RECURSIVE Segments(_)
Segments(p) ==
    IF p = <<>> THEN <<>>
    ELSE IF Head(p) = "/" THEN Segments(Tail(p))
    ELSE LET rest == Segments(Tail(p))
         IN IF Len(p) > 1 /\ p[2] # "/"
            THEN <<(<<Head(p)>> \o Head(rest))>> \o Tail(rest)
            ELSE <<(<<Head(p)>>)>> \o rest

HasDotSegment(p) ==
    \E i \in 1..Len(Segments(p)) :
        Segments(p)[i] \in {<<".">>, <<".", ".">>}

\* the live children of d that carry name n
ChildrenNamed(d, n) ==
    {c \in Obj : objs[c].live /\ objs[c].parent = d /\ objs[c].name = n}

\* the directory a chain of directory names leads to from d, NULL if none
RECURSIVE ChainEnd(_, _)
ChainEnd(d, names) ==
    IF names = <<>> THEN d
    ELSE LET cs == {c \in ChildrenNamed(d, Head(names)) :
                        objs[c].variant_type = "DIRECTORY"}
         IN IF cs = {} THEN NULL
            ELSE ChainEnd(CHOOSE c \in cs : TRUE, Tail(names))

\* a path with its leading "/" removed
RECURSIVE StripDividers(_)
StripDividers(p) ==
    IF p # <<>> /\ Head(p) = "/" THEN StripDividers(Tail(p)) ELSE p

\* lines 104-108 apply: the path is the starting object's own name
OwnName(t) ==
    /\ \A k \in 1..Len(loc[t].pathname) : loc[t].pathname[k] # "/"
    /\ loc[t].pathname = objs[loc[t].start].name

\* the text from a pointer into thread t's pathname to its end
SuffixAt(t, ptr) == SubSeq(loc[t].pathname, ptr.off, Len(loc[t].pathname))

\* thread t's walk is over: h_find_object returned and was not overwritten
WalkDone(t) ==
    /\ loc[t].op = "eval_path"
    /\ pc[t] \in {"eval_path:187", "eval_path:188", "eval_path:209", "ret"}

\* ".." is a whole segment of p at position k
DotDotAt(p, k) ==
    /\ k >= 1 /\ k + 1 <= Len(p)
    /\ p[k] = "." /\ p[k + 1] = "."
    /\ (k = 1 \/ p[k - 1] = "/")
    /\ (k + 2 > Len(p) \/ p[k + 2] = "/")

\* the walk of p from start stands at the root when it reaches position k
AtRootBefore(p, start, k) ==
    LET q == SubSeq(p, 1, k - 1)
    IN IF Segments(q) = <<>> THEN start = Root
       ELSE LET r == h_find_object(q, start, 0, 1, UninitPtr, 0)
            IN ~r.diverges /\ r.obj = Root

-----------------------------------------------------------------------------
(* C5: a walk that reaches a ".." segment of the pathname while it stands  *)
(* at the volume root returns no object and an escape signal, never        *)
(* not-found (ycb_eval_path hands the walk to the mount point instead of   *)
(* failing with ENOENT), and the signal's suffix is the pathname after     *)
(* that ".." with its leading separators skipped.                          *)
C5_EscapeAtRoot ==
    \A t \in Threads : \A k \in 1..MaxPathLen :
        LET p == loc[t].pathname
        IN ( /\ WalkDone(t)
             /\ dev.is_mounted
             /\ ~OwnName(t)
             /\ DotDotAt(p, k)
             /\ AtRootBefore(p, loc[t].start, k) )
           => /\ loc[t].obj = NULL
              /\ loc[t].out_of_fs # NullPtr
              /\ loc[t].out_of_fs.buf = 0
              /\ SuffixAt(t, loc[t].out_of_fs)
                    = StripDividers(SubSeq(p, k + 2, Len(p)))
              /\ pc[t] # "eval_path:209"
              /\ pc[t] = "ret" => /\ loc[t].evalpath_h # NoCall
                                  /\ loc[t].errno # "ENOENT"

\* "..//b" from the root: the suffix is "b"
C5_Witness ==
    /\ Walked("t1")
    /\ dev.is_mounted
    /\ loc["t1"].start = Root
    /\ loc["t1"].pathname = <<".", ".", "/", "/", "b">>
    /\ loc["t1"].obj = NULL
    /\ loc["t1"].out_of_fs = [buf |-> 0, off |-> 5]

-----------------------------------------------------------------------------
\* the pathname of thread t names, from the root, a chain of directories
NamesChain(t) ==
    /\ WalkDone(t)
    /\ dev.is_mounted
    /\ loc[t].start = Root
    /\ ~HasDotSegment(loc[t].pathname)
    /\ ChainEnd(Root, Segments(loc[t].pathname)) # NULL


(* C6 as stated: for every chain of existing directories from the root     *)
(* ending in O and every path made of their names, without "." or ".."     *)
(* segments and with any number of separators, the walk of the path from   *)
(* the root yields O.                                                      *)
C6_AsStated ==
    \A t \in Threads :
        NamesChain(t)
        => loc[t].obj = ChainEnd(Root, Segments(loc[t].pathname))

(* C6, amended: the same, for every such path that contains a separator or *)
(* differs from the root directory's own name (a path that is exactly the  *)
(* starting object's name yields the starting object, lines 104-108).      *)
C6_ChainResolves ==
    \A t \in Threads :
        (NamesChain(t) /\ ~OwnName(t))
        => loc[t].obj = ChainEnd(Root, Segments(loc[t].pathname))

\* "a//b" from the root of the plain volume yields /a/b
C6_Witness ==
    /\ Walked("t1")
    /\ objs = PlainVolume
    /\ NamesChain("t1")
    /\ loc["t1"].pathname = <<"a", "/", "/", "b">>
    /\ loc["t1"].obj = 3

-----------------------------------------------------------------------------
(* C7: for every directory D, the walk of "D/." from the root and of "."   *)
(* from D yields D, and for every directory D other than the root the walk *)
(* of "D/.." from the root and of ".." from D yields D's parent.           *)
C7_DotAndDotDot ==
    \A t \in Threads : \A d \in Obj :
        LET p == loc[t].pathname
            names(n) == SubSeq(p, 1, Len(p) - n)
            onD(n) == \/ /\ loc[t].start = Root
                         /\ Len(p) >= n + 1
                         /\ p[Len(p) - n] = "/"
                         /\ ~HasDotSegment(names(n + 1))
                         /\ ChainEnd(Root, Segments(names(n + 1))) = d
                      \/ /\ loc[t].start = d
                         /\ Len(p) = n
        IN ( /\ WalkDone(t)
             /\ dev.is_mounted
             /\ objs[d].live /\ objs[d].variant_type = "DIRECTORY" )
           => /\ (onD(1) /\ p[Len(p)] = ".") => loc[t].obj = d
              /\ ( /\ onD(2) /\ p[Len(p)] = "." /\ p[Len(p) - 1] = "."
                    /\ d # Root )
                 => loc[t].obj = objs[d].parent

\* "a/.." from the root yields the root
C7_Witness ==
    /\ Walked("t1")
    /\ objs = PlainVolume
    /\ dev.is_mounted
    /\ loc["t1"].start = Root
    /\ loc["t1"].pathname = <<"a", "/", ".", ".">>
    /\ loc["t1"].obj = Root

-----------------------------------------------------------------------------
\* thread t's pathname names, from the root, symlink l through a chain of
\* directories, and its walk has ended or recurses without end
NamesSymlink(t, l) ==
    LET segs == Segments(loc[t].pathname)
    IN /\ loc[t].op = "eval_path"
       /\ pc[t] \in {"eval_path:187", "diverged"}
       /\ dev.is_mounted
       /\ loc[t].start = Root
       /\ objs[l].live /\ objs[l].variant_type = "SYMLINK"
       /\ ~HasDotSegment(loc[t].pathname)
       /\ segs # <<>>
       /\ ChainEnd(Root, SubSeq(segs, 1, Len(segs) - 1)) = objs[l].parent
       /\ segs[Len(segs)] = objs[l].name

\* the walk of symlink l's alias on its own: from the root if the alias
\* starts with a separator, from the directory holding l otherwise
AliasWalk(l) ==
    h_find_object(objs[l].alias,
                  IF objs[l].alias # <<>> /\ objs[l].alias[1] = "/"
                  THEN NULL ELSE objs[l].parent,
                  0, 1, NullPtr, 0)

\* thread t's walk ended as the walk w does
SameResult(t, w) ==
    IF w.diverges THEN pc[t] = "diverged"
    ELSE /\ pc[t] # "diverged"
         /\ loc[t].obj = w.obj
         /\ w.obj = NULL =>
               /\ (loc[t].out_of_fs = NullPtr) = (w.out_of_fs = NullPtr)
               /\ loc[t].out_of_fs.off = w.out_of_fs.off

(* C8 as stated: the walk of a path through a symlink yields what the walk *)
(* of the alias yields from the symlink's parent directory (relative       *)
(* alias) or from the volume root (alias starting with a separator),       *)
(* wherever the symlink is.                                                *)
C8_AsStated ==
    \A t \in Threads : \A l \in Obj :
        NamesSymlink(t, l) => SameResult(t, AliasWalk(l))

(* C8, amended: the same, for every path that contains a separator or      *)
(* differs from the starting directory's own name (a path that is exactly  *)
(* the starting object's name yields that object and follows no link).     *)
C8_AliasWalk ==
    \A t \in Threads : \A l \in Obj :
        (NamesSymlink(t, l) /\ ~OwnName(t)) => SameResult(t, AliasWalk(l))

\* "a/a" names the relative link /a/a -> b and yields /a/b, and not the
\* object that "b" names from the root
C8_Witness ==
    /\ objs = SymlinkVolume
    /\ NamesSymlink("t1", 4)
    /\ loc["t1"].pathname = <<"a", "/", "a">>
    /\ loc["t1"].obj = 3

-----------------------------------------------------------------------------
\* the entries of the children of directory d, in the order of its list
ChildEntries(d) ==
    [i \in 1..Len(objs[d].children) |-> Dirent(objs[d].children[i])]

IsPrefix(a, b) == Len(a) <= Len(b) /\ a = SubSeq(b, 1, Len(a))

(* C4: the reads of a directory handle from offset 0 on, whatever the      *)
(* capacity of each, hand out the children of the directory in the order   *)
(* of its list, each once: what was handed out so far is a prefix of the   *)
(* list, a read with room for an entry that hands out none has handed out  *)
(* all of them, and no read hands out an entry after that.                 *)
C4_Enumeration ==
    \A t \in Threads :
        iop[t].node_access # NULL =>
            /\ IsPrefix(emitted[t], ChildEntries(iop[t].node_access))
            /\ ( /\ loc[t].op = "dir_read"
                 /\ pc[t] \in {"dir_read:542", "ret"}
                 /\ loc[t].count >= SizeofDirent
                 /\ loc[t].ret = 0 )
               => emitted[t] = ChildEntries(iop[t].node_access)

\* the three children of the root were handed out by reads of one entry and
\* of two entries, and a further read has returned 0
C4_Witness ==
    /\ objs = EscapeVolume
    /\ iop["t1"].node_access = Root
    /\ iop["t1"].offset = 3 * SizeofDirent
    /\ Len(emitted["t1"]) = 3
    /\ pc["t1"] = "ret" /\ loc["t1"].op = "dir_read"
    /\ loc["t1"].count = 2 * SizeofDirent + 1
    /\ loc["t1"].ret = 0

-----------------------------------------------------------------------------
(* The vocabulary of the statements about create *)

\* thread t's call of ycb_mknod has returned
Created(t) == loc[t].op = "mknod" /\ pc[t] = "ret"

\* the part of a name before its first "/"
LeadingSegment(p) ==
    SubSeq(p, 1, CHOOSE k \in 0..Len(p) :
                     /\ \A i \in 1..k : p[i] # "/"
                     /\ (k = Len(p) \/ p[k + 1] = "/"))

HasDivider(p) == \E i \in 1..Len(p) : p[i] = "/"

\* two threads' calls of ycb_mknod with the same parent and the same leaf
\* name have returned, on a writable volume
SameCreate(t1, t2) ==
    /\ t1 # t2
    /\ Created(t1) /\ Created(t2)
    /\ ~dev.read_only
    /\ loc[t1].start = loc[t2].start
    /\ LeadingSegment(loc[t1].pathname) = LeadingSegment(loc[t2].pathname)

\* of the two calls one succeeded and the other failed with EEXIST
OneCreated(t1, t2) ==
    \/ loc[t1].ret = 0 /\ loc[t2].ret = -1 /\ loc[t2].errno = "EEXIST"
    \/ loc[t2].ret = 0 /\ loc[t1].ret = -1 /\ loc[t1].errno = "EEXIST"

-----------------------------------------------------------------------------
(* C10 as stated: a create call whose name holds a path separator fails    *)
(* and creates no object under the parent.                                 *)
C10_AsStated ==
    \A t \in Threads :
        (Created(t) /\ HasDivider(loc[t].pathname))
        => loc[t].ret = -1 /\ loc[t].obj = NULL

(* C10, amended: a create call does not reject a name that holds a path    *)
(* separator; it cuts the name at its first separator, and the object it   *)
(* creates carries the part before it: no call creates an object whose     *)
(* name holds a separator, and a call that creates no object leaves the    *)
(* parent's children as they were.                                         *)
C10_NameCut ==
    \A t \in Threads :
        (loc[t].op = "mknod" /\ pc[t] \in {"mknod:366", "ret"})
        => IF loc[t].obj # NULL
           THEN /\ objs[loc[t].obj].name = LeadingSegment(loc[t].pathname)
                /\ ~HasDivider(objs[loc[t].obj].name)
                /\ objs[loc[t].obj].parent = loc[t].start
                /\ loc[t].ret = 0
           ELSE loc[t].ret = -1

\* "a/b" in /a: the call succeeds and makes /a/a
C10_Witness ==
    /\ Created("t1")
    /\ loc["t1"].start = 2
    /\ loc["t1"].pathname = <<"a", "/", "b">>
    /\ loc["t1"].ret = 0
    /\ loc["t1"].obj # NULL
    /\ objs[loc["t1"].obj].name = <<"a">>
    /\ objs[loc["t1"].obj].parent = 2

-----------------------------------------------------------------------------
(* The vocabulary of the statements about the lock *)

\* the places of the entry points whose next statement walks the graph,
\* calls an engine primitive on it or reads or writes a field of an object
GraphAccess ==
    {"eval_path:186", "eval_path:209", "node_type:293", "mknod:335",
     "fchmod:616", "rmnod:651", "rename:469", "ftruncate:761", "dir_read:516",
     "utime:422", "fstat:566", "file_read:685", "file_write:717",
     "file_lseek:742"}

(* C1: whatever the interleaving of the callers, a thread that is about to *)
(* walk the object graph, to call an engine primitive on it or to read or  *)
(* write a field of one of its objects holds the volume's lock.            *)
C1_AsStated ==
    \A t \in Threads : pc[t] \in GraphAccess => lock = t

\* the error exits the entry points take after they acquired the lock
LockedFailure(t) ==
    \/ loc[t].op = "mknod" /\ loc[t].errno \in {"EEXIST", "ENOSPC", "ENOSYS"}
    \/ loc[t].op \in {"rename", "fchmod", "ftruncate"} /\ loc[t].errno = "EIO"
    \/ loc[t].op = "rmnod" /\ loc[t].errno = "ENOTEMPTY"
    \/ loc[t].op = "mount" /\ loc[t].errno = "ENOMEM"

(* C2: an entry point that acquires the volume lock releases it exactly    *)
(* once before it returns, on success and on every error exit: a thread    *)
(* whose call has returned does not hold the lock and has called yunlock   *)
(* as often as ylock; no entry point releases a lock it does not hold or   *)
(* acquires it twice; and the exits with EEXIST, ENOSPC, ENOSYS (mknod),   *)
(* EIO (rename, chmod, truncate), ENOTEMPTY (remove) and ENOMEM (mount)    *)
(* are taken with the lock acquired once and released once.                *)
C2_LockReleased ==
    \A t \in Threads :
        /\ loc[t].locks \in {0, 1}
        /\ loc[t].unlocks <= loc[t].locks
        /\ (lock = t) = (loc[t].locks = loc[t].unlocks + 1)
        /\ pc[t] = "ret" => /\ lock # t
                            /\ loc[t].unlocks = loc[t].locks
        /\ (pc[t] = "ret" /\ LockedFailure(t))
              => loc[t].locks = 1 /\ loc[t].unlocks = 1

\* chmod has failed with EIO in t1 and released the lock, which t2 now holds
C2_Witness ==
    /\ pc["t1"] = "ret"
    /\ loc["t1"].op = "fchmod" /\ loc["t1"].errno = "EIO"
    /\ loc["t1"].locks = 1 /\ loc["t1"].unlocks = 1
    /\ lock = "t2"

-----------------------------------------------------------------------------
\* mode has a bit set outside its low 9 bits
BitOutsideLow9(mode) == \E b \in 9..30 : (mode \div (2 ^ b)) % 2 = 1

(* C9: a chmod call whose mode has a bit set outside the low 9 bits fails  *)
(* with EINVAL and changes nothing: every step of such a call leaves the   *)
(* object graph and the volume as they are, and the call goes from its     *)
(* entry straight to its return, with -1 and EINVAL.                       *)
C9_RejectsMode ==
    [][\A t \in Threads :
          ( /\ loc[t].op = "fchmod"
            /\ BitOutsideLow9(loc[t].mode)
            /\ pc'[t] # pc[t] )
          => /\ objs' = objs
             /\ dev' = dev
             /\ lock' = lock
             /\ pc'[t] = "ret"
             /\ loc'[t].ret = -1
             /\ loc'[t].errno = "EINVAL"]_vars

\* chmod of /a to 01000 has failed with EINVAL on a writable volume
C9_Witness ==
    /\ pc["t1"] = "ret"
    /\ loc["t1"].op = "fchmod"
    /\ loc["t1"].mode = PermissionBits + 1
    /\ loc["t1"].start = 2
    /\ loc["t1"].ret = -1 /\ loc["t1"].errno = "EINVAL"
    /\ ~dev.read_only
    /\ objs[2].yst_mode = 493 /\ objs[2].dirty = 0

\* the entry points that are meant to change the object graph and test the
\* volume's read-only flag first
Mutators == {"mknod", "rmnod", "rename", "fchmod", "file_write"}

\* thread t takes a step of a call of one of the operations ops
StepOf(t, ops) == loc'[t].op \in ops /\ pc'[t] # pc[t]

(* C11 as stated: on a read-only volume, every step of create, remove,      *)
(* rename, chmod and write leaves the object graph unchanged and the call   *)
(* returns -1 with EROFS.                                                   *)
C11_AsStated ==
    [][\A t \in Threads :
          (dev.read_only /\ StepOf(t, Mutators))
          => /\ objs' = objs
             /\ pc'[t] = "ret" => /\ loc'[t].ret = -1
                                  /\ loc'[t].errno = "EROFS"]_vars

(* C11: on a read-only volume, every step of create, remove, rename, chmod  *)
(* and write leaves the object graph unchanged and the call returns -1; the *)
(* error is EINVAL for a chmod whose mode has a bit outside the permission  *)
(* bits, EROFS otherwise, except that create may fail with ENOMEM when it   *)
(* copies the name, before it tests the flag.                               *)
C11_ReadOnly ==
    [][\A t \in Threads :
          (dev.read_only /\ StepOf(t, Mutators))
          => /\ objs' = objs
             /\ pc'[t] = "ret" =>
                  /\ loc'[t].ret = -1
                  /\ IF loc'[t].op = "fchmod" /\ BitOutsideLow9(loc'[t].mode)
                     THEN loc'[t].errno = "EINVAL"
                     ELSE \/ loc'[t].errno = "EROFS"
                          \/ loc'[t].op = "mknod" /\ loc'[t].errno = "ENOMEM"]_vars

\* on the read-only volume, rename of /b has failed with EROFS and the other
\* thread's write to it has too
C11_Witness ==
    /\ dev.read_only
    /\ pc["t1"] = "ret" /\ loc["t1"].op = "rename"
    /\ loc["t1"].ret = -1 /\ loc["t1"].errno = "EROFS"
    /\ pc["t2"] = "ret" /\ loc["t2"].op = "file_write"
    /\ loc["t2"].ret = -1 /\ loc["t2"].errno = "EROFS"
    /\ objs = SmallVolume

\* t1's truncate of the file to the length L has returned 0
Truncated(L) ==
    /\ pc["t1"] = "ret"
    /\ loc["t1"].op = "ftruncate"
    /\ loc["t1"].length = L
    /\ loc["t1"].ret = 0

\* thread t's call of the operation op on the object o has returned
Returned(t, op, o) == pc[t] = "ret" /\ loc[t].op = op /\ loc[t].obj = o

\* the larger of 0 and n
AtLeastZero(n) == IF n > 0 THEN n ELSE 0

(* C12: once truncate(file, L) has returned 0, a stat of the file that      *)
(* follows reports size L, and a read that follows at an offset at or       *)
(* beyond L returns 0, not -1; and no read returns more than the larger of  *)
(* 0 and file length - offset bytes.                                        *)
C12_TruncateStatRead ==
    /\ \A L \in 0..MaxFileLen :
          Truncated(L) =>
             LET f == loc["t1"].obj
             IN /\ Returned("t2", "fstat", f) => loc["t2"].buf.st_size = L
                /\ (Returned("t2", "file_read", f) /\ iop["t2"].offset >= L)
                   => loc["t2"].ret = 0
    /\ \A t \in Threads :
          (pc[t] = "ret" /\ loc[t].op = "file_read")
          => loc[t].ret <= AtLeastZero(objs[loc[t].obj].length - iop[t].offset)

\* the file was truncated to 1; a read at offset 1, the new end of the file,
\* has returned 0
C12_Witness ==
    /\ Truncated(1)
    /\ iop["t1"].size = 1
    /\ Returned("t2", "file_read", 3)
    /\ iop["t2"].offset = 1
    /\ loc["t2"].ret = 0 /\ loc["t2"].errno = "none"

\* thread t's Lookup has returned r, and the value is its own: the call was
\* not handed to the parent mount's lookup
LookedUp(t, r) ==
    /\ pc[t] = "ret" /\ loc[t].op = "eval_path"
    /\ loc[t].node_access # mt_point_node
    /\ loc[t].ret = r

\* thread t's pathname names, from the root, symlink l through a chain of
\* directories
EndsInSymlink(t, l) ==
    LET segs == Segments(loc[t].pathname)
    IN /\ dev.is_mounted
       /\ loc[t].start = Root
       /\ objs[l].live /\ objs[l].variant_type = "SYMLINK"
       /\ ~HasDotSegment(loc[t].pathname)
       /\ segs # <<>>
       /\ ChainEnd(Root, SubSeq(segs, 1, Len(segs) - 1)) = objs[l].parent
       /\ segs[Len(segs)] = objs[l].name

(* C13 as stated: a Lookup that returns 0 has bound the directory handlers  *)
(* iff the object the Resolver gave is a Directory and the file handlers    *)
(* iff it is a File; a path that ends in a symlink is bound to the object   *)
(* the walk of its alias ends at, never to a Symlink; an object of another  *)
(* variant makes Lookup return -1 with ENOSYS, and a path that resolves to  *)
(* nothing and leaves no escape signal makes it return -1 with ENOENT.      *)
C13_AsStated ==
    \A t \in Threads :
        /\ LookedUp(t, 0) =>
              /\ loc[t].node_access = loc[t].obj
              /\ (loc[t].handlers = "yaffs_directory_handlers")
                    = (objs[loc[t].obj].variant_type = "DIRECTORY")
              /\ (loc[t].handlers = "yaffs_file_handlers")
                    = (objs[loc[t].obj].variant_type = "FILE")
              /\ objs[loc[t].obj].variant_type # "SYMLINK"
              /\ \A l \in Obj :
                    EndsInSymlink(t, l) => loc[t].obj = AliasWalk(l).obj
        /\ ( /\ pc[t] = "ret" /\ loc[t].op = "eval_path"
             /\ loc[t].obj # NULL
             /\ objs[loc[t].obj].variant_type \notin {"DIRECTORY", "FILE"} )
           => loc[t].ret = -1 /\ loc[t].errno = "ENOSYS"
        /\ ( /\ pc[t] = "ret" /\ loc[t].op = "eval_path"
             /\ loc[t].obj = NULL /\ loc[t].out_of_fs = NullPtr )
           => loc[t].ret = -1 /\ loc[t].errno = "ENOENT"

\* the first n elements of the sequence s, all of them if it has fewer
FirstN(s, n) == SubSeq(s, 1, IF n < Len(s) THEN n ELSE Len(s))

(* C14: a directory seek with SEEK_SET and offset 0 returns 0 and leaves    *)
(* the handle at offset 0, every other directory seek returns -1 with       *)
(* ENOTSUP and leaves the handle, offset and cursor, as it was; and a read  *)
(* that finds the handle at offset 0 hands out the children of the          *)
(* directory from the first one on, whatever the cursor was.                *)
C14_Rewind ==
    [][\A t \in Threads :
          /\ (pc[t] = "idle" /\ loc'[t].op = "dir_lseek") =>
                IF loc'[t].whence = "SEEK_SET" /\ loc'[t].length = 0
                THEN /\ pc'[t] = "ret" /\ loc'[t].ret = 0
                     /\ iop'[t].offset = 0
                ELSE /\ pc'[t] = "ret"
                     /\ loc'[t].ret = -1 /\ loc'[t].errno = "ENOTSUP"
                     /\ iop'[t] = iop[t]
          /\ ( /\ pc[t] = "dir_read:516" /\ pc'[t] = "dir_read:542"
               /\ iop[t].offset = 0 )
             => /\ loc'[t].de = FirstN(ChildEntries(loc[t].obj),
                                       loc[t].count \div SizeofDirent)
                /\ iop'[t].offset = Len(loc'[t].de) * SizeofDirent]_vars

\* a seek to offset 0 has returned 0 on a handle whose cursor stands at the
\* second child: the offset is 0 and the cursor is where it was
C14_Witness ==
    LET dir == iop["t1"].node_access
    IN /\ dir # NULL
       /\ Len(objs[dir].children) >= 2
       /\ pc["t1"] = "ret" /\ loc["t1"].op = "dir_lseek"
       /\ loc["t1"].ret = 0
       /\ iop["t1"].offset = 0
       /\ iop["t1"].data1 = objs[dir].children[2]

\* thread t's Lookup was handed to the parent mount's lookup, after a walk
\* that left the root at a ".." of the pathname the caller passed
Delegated(t) ==
    /\ pc[t] = "ret" /\ loc[t].op = "eval_path"
    /\ loc[t].node_access = mt_point_node
    /\ loc[t].out_of_fs.buf = 0

(* C15 as stated: the call handed to the parent mount's lookup starts at    *)
(* the ".." segment of the pathname that left the root, and its length is   *)
(* the length of the pathname minus the offset of that segment, however     *)
(* many separators follow the "..".                                         *)
C15_AsStated ==
    \A t \in Threads :
        Delegated(t) =>
            LET call == loc[t].evalpath_h
            IN /\ call.buf = 0
               /\ DotDotAt(loc[t].pathname, call.off)
               /\ call.len = Len(loc[t].pathname) - (call.off - 1)

(* C16 as stated: on a volume that is not mounted, the walk of every        *)
(* pathname from every starting object returns no object and no escape      *)
(* signal.                                                                  *)
C16_AsStated ==
    \A t \in Threads :
        (WalkDone(t) /\ ~dev.is_mounted)
        => loc[t].obj = NULL /\ loc[t].out_of_fs = NullPtr

(* C16: on a volume that is not mounted, the walk returns no object and no  *)
(* escape signal for every starting object and every pathname, except a     *)
(* pathname without separator that is the starting object's own name: that  *)
(* walk returns the starting object, mounted or not.                        *)
C16_NotMounted ==
    \A t \in Threads :
        (WalkDone(t) /\ ~dev.is_mounted)
        => IF OwnName(t)
           THEN loc[t].obj = loc[t].start
           ELSE loc[t].obj = NULL /\ loc[t].out_of_fs = NullPtr

\* on the volume that is not mounted, Lookup of "a/b" from the root, which
\* names a directory of the graph, has failed with ENOENT
C16_Witness ==
    /\ ~dev.is_mounted
    /\ objs = PlainVolume
    /\ pc["t1"] = "ret" /\ loc["t1"].op = "eval_path"
    /\ loc["t1"].start = Root
    /\ loc["t1"].pathname = <<"a", "/", "b">>
    /\ loc["t1"].obj = NULL /\ loc["t1"].out_of_fs = NullPtr
    /\ loc["t1"].ret = -1 /\ loc["t1"].errno = "ENOENT"

-----------------------------------------------------------------------------
(* The walk once more, told which symlinks it is following: active is the  *)
(* set of symlinks whose alias is being walked, each inside the one before. *)
(* It yields [obj, cycle]: cycle when the walk comes to follow a symlink    *)
(* that it is already following, and the object it ends at otherwise.       *)
RECURSIVE LinkWalk(_, _, _, _, _)
RECURSIVE LinkWalkLoop(_, _, _, _, _)
RECURSIVE LinkFollowLoop(_, _, _)

LinkFollowLoop(ptxt, obj, active) ==
    IF obj # NULL /\ objs[obj].variant_type = "SYMLINK"
    THEN IF obj \in active
         THEN [obj |-> NULL, cycle |-> TRUE]
         ELSE LET r == LinkWalk(ptxt, AliasStart(obj), obj, 1,
                                active \cup {obj})
              IN IF r.cycle THEN r ELSE LinkFollowLoop(ptxt, r.obj, active)
    ELSE [obj |-> obj, cycle |-> FALSE]

LinkFollow(ptxt, obj, active) ==
    LinkFollowLoop(ptxt,
                   IF obj # NULL THEN yaffs_get_equivalent_obj(obj) ELSE obj,
                   active)

LinkWalkLoop(ptxt, dir, buf, off, active) ==
    LET s == Text(ptxt, buf)
        i1 == SkipDividers(s, off)
        i2 == TokenEnd(s, i1)
        str == Token(s, i1, i2)
        Then(d) ==
            IF CharAt(s, i2) = NUL \/ d = NULL
            THEN [obj |-> d, cycle |-> FALSE]
            ELSE LinkWalkLoop(ptxt, d, buf, i2, active)
    IN IF str = <<".">> THEN Then(dir)
       ELSE IF str = <<".", ".">>
       THEN IF objs[dir].parent # NULL THEN Then(objs[dir].parent)
            ELSE [obj |-> NULL, cycle |-> FALSE]
       ELSE IF str # <<>> /\ objs[dir].variant_type # "DIRECTORY"
            THEN [obj |-> NULL, cycle |-> FALSE]
            ELSE LET r == LinkFollow(ptxt,
                                     IF str # <<>>
                                     THEN yaffs_find_by_name(dir, str)
                                     ELSE dir,
                                     active)
                 IN IF r.cycle THEN r ELSE Then(r.obj)

LinkWalk(ptxt, dir, buf, off, active) ==
    LET s == Text(ptxt, buf)
        pathname == SubSeq(s, off, Len(s))
    IN IF /\ \A k \in 1..Len(pathname) : pathname[k] # "/"
          /\ dir # NULL
          /\ yaffs_get_obj_name(dir, NAME_MAX) = pathname
       THEN [obj |-> dir, cycle |-> FALSE]
       ELSE IF ~dev.is_mounted THEN [obj |-> NULL, cycle |-> FALSE]
       ELSE LinkWalkLoop(ptxt, IF dir = NULL THEN Root ELSE dir, buf, off,
                         active)

(* C17: the walk has no cycle detection and no bound on the length of a     *)
(* chain of symlinks: it returns, with the object the chain ends at, for    *)
(* every pathname whose walk never comes to follow a symlink it is already  *)
(* following, however long the chain, and it never returns (it recurses     *)
(* without end) when it does come to follow such a symlink.                 *)
C17_NoCycleDetection ==
    \A t \in Threads :
        (loc[t].op = "eval_path" /\ pc[t] \in {"eval_path:187", "diverged"})
        => LET w == LinkWalk(loc[t].pathname, loc[t].start, 0, 1, {})
           IN IF w.cycle THEN pc[t] = "diverged"
              ELSE pc[t] = "eval_path:187" /\ loc[t].obj = w.obj

\* "./b" from the root, where /b -> a and /a -> b: the walk never returns
C17_Witness ==
    /\ objs = CycleVolume
    /\ dev.is_mounted
    /\ loc["t1"].op = "eval_path"
    /\ loc["t1"].start = Root
    /\ loc["t1"].pathname = <<".", "/", "b">>
    /\ pc["t1"] = "diverged"
    /\ lock = "t1"

-----------------------------------------------------------------------------
\* thread t, holding the lock in ycb_dir_read, is about to follow the cursor
\* its handle kept from an earlier read
FollowsCursor(t) ==
    /\ pc[t] = "dir_read:516"
    /\ iop[t].offset # 0
    /\ iop[t].data1 # NULL
    /\ loc[t].count >= SizeofDirent

(* C18 as stated: whenever a directory read follows the cursor a handle     *)
(* kept from an earlier read, the object the cursor refers to still exists  *)
(* and is still a child of the directory the handle is open on, whatever    *)
(* other threads removed or renamed between the reads.                      *)
C18_AsStated ==
    \A t \in Threads :
        FollowsCursor(t) => CursorValid(iop[t].node_access, iop[t].data1)

-----------------------------------------------------------------------------
\* thread t's Lookup is on the mount-escape path: the walk returned no object
\* and left an escape signal
Escaped(t) ==
    /\ WalkDone(t)
    /\ loc[t].obj = NULL
    /\ loc[t].out_of_fs # NullPtr

(* C19 as stated: whenever Lookup takes the mount-escape path, the suffix   *)
(* position the walk left in out_of_fs lies inside the pathname that was    *)
(* passed to Lookup (at one of its characters or at its end), also when the *)
(* ".." that left the root is a segment of a symlink's alias.               *)
C19_AsStated ==
    \A t \in Threads :
        Escaped(t) =>
            /\ loc[t].out_of_fs.buf = 0
            /\ loc[t].out_of_fs.off \in 1..(Len(loc[t].pathname) + 1)

-----------------------------------------------------------------------------
(* C20 as stated: on a read-only volume no step of truncate or utime, as no *)
(* step of create, remove, rename, chmod and write, changes the object      *)
(* graph.                                                                   *)
C20_AsStated ==
    [][\A t \in Threads :
          (dev.read_only /\ StepOf(t, Mutators \cup {"ftruncate", "utime"}))
          => objs' = objs]_vars

-----------------------------------------------------------------------------
\* thread t's call has returned failure, and it is the only call made since
\* the volume was set up: the other threads have not entered one
FailedAlone(t) ==
    /\ pc[t] = "ret"
    /\ loc[t].ret = -1
    /\ \A t2 \in Threads \ {t} : pc[t2] = "idle"

(* C21 as stated: a call of an entry point that returns failure leaves the  *)
(* object graph as it was when the call started; a chmod that fails with    *)
(* EIO leaves the stored mode and the dirty flag of the object unchanged.   *)
C21_AsStated ==
    \A t \in Threads : FailedAlone(t) => objs = SmallVolume

=============================================================================
